---- MODULE Spec2Model ----
(***************************************************************************)
(* Server-side coordination engine of the two game servers of the          *)
(* repository:                                                             *)
(*   "sudoku" : src/server.c            (Collaborative Sudoku, spinlocks)  *)
(*   "race"   : src/unnamed/part_002    (Race to 100, pshared mutexes)     *)
(* The variable `server` is fixed by Init and selects whose code runs.     *)
(* Handlers are forked child processes, the scheduler is a thread, main is *)
(* the acceptor.  Every critical section is two steps: the step that takes *)
(* the game lock and the step that runs the body and releases the lock.    *)
(***************************************************************************)
EXTENDS Integers, Sequences, FiniteSets, TLC

\* ------------------------------------------------------------------------
\* Program constants
\* ------------------------------------------------------------------------
MIN_PLAYERS == 3
MAX_PLAYERS == 5
WINNING_SCORE == 100
EMPTY_CELL == 0
POINTS_CORRECT == 10
POINTS_WRONG == -5

\* ------------------------------------------------------------------------
\* Bounds of the model
\* ------------------------------------------------------------------------
\* handler processes ever forked (sudoku: one per slot, in slot order)
MaxHandlers == 3
\* Join messages are read while num_players is below this
MaxJoins == 3
\* Place / Roll messages are read while fewer moves than this were accepted
MaxMoves == 2
\* side of the modelled grid (GRID_SIZE is 9 in the code)
GridDim == 2
\* cells generate_puzzle empties (30 + 5 * difficulty = 40 in the code)
CellsToRemove == 2
\* results recorded in a walk of get_next_active_player
MaxAdvances == 6
LogQueueCap == 2
MaxLogs == 2

Slots == 0 .. (MAX_PLAYERS - 1)
Handlers == 0 .. (MaxHandlers - 1)
Cells == (0 .. (GridDim - 1)) \X (0 .. (GridDim - 1))
\* faces the model draws for a die (rand() % 6 + 1 gives 1 .. 6): the lowest and the
\* highest, so that snake eyes, a mixed roll and a double six all occur
DieFaces == {1, 6}

\* PlayerState / GameState enums
PLAYER_DISCONNECTED == "DISCONNECTED"
PLAYER_WAITING == "WAITING"
PLAYER_ACTIVE == "ACTIVE"
PLAYER_FINISHED == "FINISHED"
PlayerStates == {PLAYER_DISCONNECTED, PLAYER_WAITING, PLAYER_ACTIVE, PLAYER_FINISHED}
GAME_WAITING_FOR_PLAYERS == "WAITING_FOR_PLAYERS"
GAME_IN_PROGRESS == "IN_PROGRESS"
GAME_FINISHED == "GAME_FINISHED"

VARIABLES
    server,          \* "sudoku" or "race": which server's code runs
    game_state,      \* SharedGameState.game_state
    num_players,     \* SharedGameState.num_players
    current_turn,    \* SharedGameState.current_turn (-1: none)
    winner_id,       \* SharedGameState.winner_id (-1: none)
    players,         \* SharedGameState.players[]: state, score, counters
    grid,            \* SharedGameState.grid (sudoku)
    cells_remaining, \* SharedGameState.cells_remaining (sudoku)
    turn_signal,     \* SharedGameState.turn_signal (sudoku)
    game_lock,       \* game_lock.lock (sudoku) / game_mutex (race): 0 free, 1 held
    hpc,             \* handler process -> position in handle_client
    hslot,           \* handler process -> player_id it was forked with (-1: no process)
    out,             \* the answer to a Move built in the step just taken, if any
    spc,             \* scheduler thread position
    mpc,             \* main / acceptor position
    mslot,           \* main: loop index i (sudoku) / slot found by the scan (race)
    nmoves,          \* history: moves accepted so far (bounded by MaxMoves)
    seq_score,       \* history: per slot, the accepted moves replayed one at a time
    movers,          \* history: slots with a move accepted since the last turn change
    e2e,             \* history: stage of the A, B, C join / move / disconnect scenario
    ledger,          \* scores->entries of the sudoku server, one entry per slot's name
    status_seen,     \* history: the last answer to a Status query, if it is still fresh
    log_queue,       \* LogQueue: entries, head, tail, count, lock, shutdown
    log_file,        \* the lines the logger thread has written to the log file
    server_running,  \* volatile sig_atomic_t server_running
    scores_lock,     \* scores->lock
    tpc,             \* logging view: position of main, scheduler, logger and a handler
    sig,             \* sigint_handler: the thread it runs on and its position
    accepted,        \* history: the entries enqueue_log has put in the queue, in order
    nlogs,           \* history: calls of enqueue_log from loops (bounded by MaxLogs)
    served,          \* history: slots that had a connection since the game started
    pending,         \* history: a turn change still waits for its YourTurn ("off": not kept)
    update,          \* the MSG_GRID_UPDATE each handler is building, and what it could show
    visited          \* history: start index and results of a walk of get_next_active_player

shared == <<game_state, num_players, current_turn, winner_id, players, grid,
            cells_remaining, turn_signal>>
procs == <<hpc, hslot, spc, mpc, mslot>>
history == <<nmoves, seq_score, movers, e2e, visited>>
logging == <<log_queue, log_file, server_running, scores_lock, tpc, sig, accepted, nlogs>>
watch == <<served, pending, update>>
vars == <<server, shared, game_lock, procs, out, history, ledger, status_seen, logging, watch>>

\* ------------------------------------------------------------------------
\* Locks
\* ------------------------------------------------------------------------
\* A test-and-set that forgets to test: every caller gets the lock.
spin_lock_store_only(l) == [old |-> 0, new |-> 1]

\* while (__sync_lock_test_and_set(&lock->lock, 1)) usleep(100);
\* one test-and-set: the word becomes 1 and the caller owns the lock iff it was 0
spin_lock(l) == [old |-> l, new |-> 1]

\* __sync_lock_release(&lock->lock)
spin_unlock(l) == 0

\* pthread_mutex_lock on a PTHREAD_PROCESS_SHARED mutex: taken iff it was free
pthread_mutex_lock(m) == [old |-> m, new |-> 1]

\* pthread_mutex_unlock
pthread_mutex_unlock(m) == 0

\* the game lock of the running server
LockGame(l) == IF server = "sudoku" THEN spin_lock(l) ELSE pthread_mutex_lock(l)
UnlockGame(l) == IF server = "sudoku" THEN spin_unlock(l) ELSE pthread_mutex_unlock(l)

Acquire == LET r == LockGame(game_lock) IN r.old = 0 /\ game_lock' = r.new
Release == game_lock' = UnlockGame(game_lock)

\* ------------------------------------------------------------------------
\* Round robin helpers
\* ------------------------------------------------------------------------
\* the do-while loop of get_next_active_player, n slots still to look at
RECURSIVE ScanActive(_, _, _)
ScanActive(ps, idx, n) ==
    IF n = 0 THEN -1
    ELSE IF ps[idx].state = PLAYER_ACTIVE THEN idx
    ELSE ScanActive(ps, (idx + 1) % MAX_PLAYERS, n - 1)

\* a scan that takes the slot after `current` without looking at its state
next_slot_unchecked(ps, current) == (current + 1) % MAX_PLAYERS

get_next_active_player(ps, current) ==
    ScanActive(ps, (current + 1) % MAX_PLAYERS, MAX_PLAYERS)

count_active_players(ps) == Cardinality({i \in Slots : ps[i].state = PLAYER_ACTIVE})

\* a turn change that leaves the counter alone
turn_signal_kept(ts) == ts

\* game_state->turn_signal++
turn_signal_incr(ts) == ts + 1

\* ------------------------------------------------------------------------
\* Records
\* ------------------------------------------------------------------------
\* positions and values a client may put in a Place message: every cell, one
\* position out of range on either side, the values 1 .. GridDim and two values
\* outside 1 .. 9
PlaceCoords == Cells \cup {<<-1, 0>>, <<0, GridDim>>}
PlaceValues == (0 .. GridDim) \cup {10}

\* Player as set up by setup_shared_memory
InitPlayer == [state |-> PLAYER_DISCONNECTED, score |-> 0,
               correct_placements |-> 0, wrong_placements |-> 0]

\* a ScoreEntry of a new name; load_scores finds no file before the first game
InitEntry == [wins |-> 0, total_correct |-> 0, total_wrong |-> 0]

\* update_player_stats for the entry of the player's name
update_player_stats(entry, is_winner, correct, wrong) ==
    [wins |-> entry.wins + (IF is_winner THEN 1 ELSE 0),
     total_correct |-> entry.total_correct + correct,
     total_wrong |-> entry.total_wrong + wrong]

\* the scheduler's loop over the players once the puzzle is complete
LedgerAfter(l, ps, winner) ==
    [i \in Slots |->
        IF ps[i].state = PLAYER_ACTIVE
        THEN update_player_stats(l[i], i = winner, ps[i].correct_placements,
                                 ps[i].wrong_placements)
        ELSE l[i]]

\* SudokuCell as set up by setup_shared_memory
InitCell == [value |-> EMPTY_CELL, solution |-> 0, is_fixed |-> 0, placed_by |-> -1]

\* ------------------------------------------------------------------------
\* History variables
\* ------------------------------------------------------------------------
Ev(k, s) == [k |-> k, s |-> s]
Tau == Ev("tau", 0)

\* Monitor of the scenario: slots 0, 1, 2 join in this order (1, 2, 3), slot 0
\* has a move accepted that does not end the game (4), its handler runs
\* advance_turn (5), slot 1's pipe closes (6), the scheduler runs one iteration
\* (7).  Steps that leave the shared state alone do not move the monitor; any
\* other step that changes the shared state switches it off (-1).
E2E(st, ev) ==
    IF ev.k = "tau" THEN st
    ELSE IF ev.k = "sched" THEN (IF st = 6 THEN 7 ELSE IF ev.s = 1 THEN -1 ELSE st)
    ELSE IF st = 0 /\ ev = Ev("join", 0) THEN 1
    ELSE IF st = 1 /\ ev = Ev("join", 1) THEN 2
    ELSE IF st = 2 /\ ev = Ev("join", 2) THEN 3
    ELSE IF st = 3 /\ ev = Ev("move", 0) THEN 4
    ELSE IF st = 4 /\ ev = Ev("adv", 0) THEN 5
    ELSE IF st = 5 /\ ev = Ev("eof", 1) THEN 6
    ELSE -1

\* ------------------------------------------------------------------------
\* The log queue
\* ------------------------------------------------------------------------
Threads == {"main", "sched", "logger", "handler"}

\* the threads of the server process: a signal sent to the process runs
\* sigint_handler on one of them
ServerThreads == {"main", "sched", "logger"}

\* LogQueue after setup_shared_memory
InitLogQueue ==
    [entries |-> [i \in 0 .. (LogQueueCap - 1) |-> <<"none", 0>>],
     head |-> 0, tail |-> 0, count |-> 0, lock |-> 0, shutdown |-> 0]

NoSignal == [t |-> "none", pc |-> "idle"]

\* the logging view is not running: the game view leaves it alone
LoggingIdle ==
    /\ log_queue = InitLogQueue
    /\ log_file = <<>>
    /\ server_running = 1
    /\ scores_lock = 0
    /\ tpc = [t \in Threads |-> "off"]
    /\ sig = NoSignal
    /\ accepted = <<>>
    /\ nlogs = 0

\* the Status history: not kept (on = FALSE), or kept: the handler h that was
\* answered last, the snapshot it got and the number n of answers modulo 2
StatusOff == [on |-> FALSE, h |-> -1, n |-> 0, snap |-> <<>>]
StatusOn == [on |-> TRUE, h |-> -1, n |-> 0, snap |-> <<>>]

\* a request of a client that was carried out (Join, Move, Quit, a closed pipe)
\* or a reset makes the last Status answer stale
Seen(st, ev) ==
    IF ev.k \in {"join", "move", "over", "eof", "quit", "reset"}
    THEN [st EXCEPT !.h = -1, !.snap = <<>>]
    ELSE st

\* the slots of the live handler processes
LiveSlots(hs) == {hs[h] : h \in Handlers} \ {-1}

\* the slot history: not kept (on = FALSE), or the slots that had a connection
\* in the states of the running game before this one; empty while no game is
\* in progress
ServedOff == [on |-> FALSE, slots |-> {}]
ServedOn == [on |-> TRUE, slots |-> {}]

Served(sv, gs, hs) ==
    IF sv.on /\ gs = GAME_IN_PROGRESS
    THEN [sv EXCEPT !.slots = @ \cup LiveSlots(hs)]
    ELSE [sv EXCEPT !.slots = {}]

\* current_turn goes from old to new in a step taken while the game is in
\* progress: the new current slot has a YourTurn to get
MarkTurn(p, gs, old, new) ==
    IF p # "off" /\ gs = GAME_IN_PROGRESS /\ new # old THEN "yes" ELSE p

\* a YourTurn is sent to the current slot (to = -1: none is sent)
MarkTold(p, to) == IF p # "off" /\ to # -1 THEN "no" ELSE p

\* the grid updates: not followed (on = FALSE), or per handler the fields it
\* has copied so far (part) and the shared states since its copy began (trail)
UpdateOff ==
    [on |-> FALSE, part |-> [h \in Handlers |-> <<>>], trail |-> [h \in Handlers |-> {}]]
UpdateOn ==
    [on |-> TRUE, part |-> [h \in Handlers |-> <<>>], trail |-> [h \in Handlers |-> {}]]

\* the state a snapshot taken at this instant would carry (the fields
\* copy_state_to_message reads)
SnapshotNow == <<grid, players, cells_remaining, num_players, current_turn>>

\* the present state joins the trail of every copy that is under way
Trail(u) ==
    [u EXCEPT !.trail = [h \in Handlers |->
                            IF u.part[h] # <<>> THEN u.trail[h] \cup {SnapshotNow} ELSE {}]]

\* no history of the game view is kept
WatchOff ==
    /\ served = ServedOff
    /\ pending = "off"
    /\ update = UpdateOff

\* served and the trails follow every step of the servers
Watch ==
    /\ served' = Served(served, game_state, hslot)
    /\ update' = Trail(update)

\* every step of the servers moves the monitors; the walk history is moved by
\* the walk only.  p is the turn-change history after the step.
TrackTurn(ev, p) ==
    /\ e2e' = E2E(e2e, ev)
    /\ status_seen' = Seen(status_seen, ev)
    /\ Watch
    /\ pending' = p
    /\ UNCHANGED <<visited, ledger, logging>>

Track(ev) == TrackTurn(ev, pending)

\* ------------------------------------------------------------------------
\* Requests and responses
\* ------------------------------------------------------------------------
\* the GameMessage a handler answers with (memset to 0, then type and, for a
\* placement that passed the checks, row, col, value and success), next to the
\* type of the request it answers; for a roll, the dice the handler names in
\* the response text and in its log entry
Resp(h, req, r) ==
    [h |-> h, req |-> req, type |-> r, row |-> 0, col |-> 0, value |-> 0, success |-> 0,
     die1 |-> 0, die2 |-> 0, to |-> -1, locked |-> FALSE]

PlaceResp(h, r, row, col, value, success) ==
    [h |-> h, req |-> "PLACE", type |-> r, row |-> row, col |-> col, value |-> value,
     success |-> success, die1 |-> 0, die2 |-> 0, to |-> -1, locked |-> FALSE]

RollResp(h, r, die1, die2) ==
    [h |-> h, req |-> "ROLL", type |-> r, row |-> 0, col |-> 0, value |-> 0, success |-> 0,
     die1 |-> die1, die2 |-> die2, to |-> -1, locked |-> FALSE]

\* the MSG_YOUR_TURN that broadcast_turn_notification writes to the pipe of slot
\* `to` before it unlocks (the open succeeds while the client has its end open)
Notify(h, to) ==
    [h |-> h, req |-> "TURN", type |-> "YOUR_TURN", row |-> 0, col |-> 0, value |-> 0,
     success |-> 0, die1 |-> 0, die2 |-> 0, to |-> to, locked |-> TRUE]

NoOut == Resp(-1, "NONE", "NONE")

\* the step builds no response
Silent == out' = NoOut

\* ------------------------------------------------------------------------
\* Initial state: setup_shared_memory of either server, nothing forked yet
\* ------------------------------------------------------------------------
Init ==
    /\ server \in {"sudoku", "race"}
    /\ game_state = GAME_WAITING_FOR_PLAYERS
    /\ num_players = 0
    /\ current_turn = -1
    /\ winner_id = -1
    /\ players = [i \in Slots |-> InitPlayer]
    /\ grid = [c \in Cells |-> InitCell]
    /\ cells_remaining = 0
    /\ turn_signal = 0
    /\ game_lock = 0
    /\ hpc = [h \in Handlers |-> "unborn"]
    /\ hslot = [h \in Handlers |-> -1]
    /\ out = NoOut
    /\ spc = "run"
    /\ mpc = IF server = "sudoku" THEN "accept" ELSE "scan"
    /\ mslot = IF server = "sudoku" THEN 0 ELSE -1
    /\ nmoves = 0
    /\ seq_score = [i \in Slots |-> 0]
    /\ movers = {}
    /\ e2e = 0
    /\ visited = <<>>
    /\ ledger = [i \in Slots |-> InitEntry]
    /\ status_seen = StatusOff
    /\ LoggingIdle
    /\ WatchOff

\* ------------------------------------------------------------------------
\* Acceptor
\* ------------------------------------------------------------------------
\* sudoku: for (i = 0; i < MAX_PLAYERS && server_running; i++): the opens return
\* when a client connects to slot i, then fork; the child runs handle_client(i)
accept_player_connections ==
    /\ server = "sudoku"
    /\ mpc = "accept"
    /\ mslot < MAX_PLAYERS
    /\ mslot \in Handlers
    /\ hpc[mslot] = "unborn"
    /\ hpc' = [hpc EXCEPT ![mslot] = "read"]
    /\ hslot' = [hslot EXCEPT ![mslot] = mslot]
    /\ mslot' = mslot + 1
    /\ Silent
    /\ Track(Tau)
    /\ UNCHANGED <<server, shared, game_lock, spc, mpc, nmoves, seq_score, movers>>

\* ------------------------------------------------------------------------
\* handle_client: reading a request and taking the game lock
\* ------------------------------------------------------------------------
\* read() has returned (a message of a known type, or <= 0 bytes) and the
\* handler takes the game lock for its case.  The content of what was read is
\* local to the handler until the case body runs, so it is drawn there.
handle_client_lock(h) ==
    /\ hpc[h] = "read"
    /\ Acquire
    /\ hpc' = [hpc EXCEPT ![h] = "cs"]
    /\ Silent
    /\ Track(Tau)
    /\ UNCHANGED <<server, shared, hslot, spc, mpc, mslot, nmoves, seq_score, movers>>

\* default: a message of no known type is answered with MSG_ERROR, no lock taken
handle_client_default(h) ==
    /\ hpc[h] = "read"
    /\ Silent
    /\ Track(Tau)
    /\ UNCHANGED <<server, shared, game_lock, procs, nmoves, seq_score, movers>>

\* the handler leaves its critical section with response o and goes on at pc;
\* a handler that exits is no process any more.  Of the responses, the answers
\* to a Move are observed.
Leave(h, o, pc) ==
    /\ Release
    /\ out' = IF o.req \in {"PLACE", "ROLL"} THEN o ELSE NoOut
    /\ hpc' = [hpc EXCEPT ![h] = pc]
    /\ hslot' = IF pc = "exit" THEN [hslot EXCEPT ![h] = -1] ELSE hslot
    /\ UNCHANGED <<server, spc, mpc, mslot>>

\* bytes <= 0: the slot goes Disconnected and the handler exits without a
\* response; the sudoku server also decrements num_players, the race server
\* does not
handle_client_disconnect(h) ==
    /\ hpc[h] = "cs"
    /\ players' = [players EXCEPT ![hslot[h]].state = PLAYER_DISCONNECTED]
    /\ num_players' = IF server = "sudoku" THEN num_players - 1 ELSE num_players
    /\ Leave(h, Resp(h, "EOF", "NONE"), "exit")
    /\ Track(Ev("eof", hslot[h]))
    /\ UNCHANGED <<game_state, current_turn, winner_id, grid, cells_remaining,
                   turn_signal, nmoves, seq_score, movers>>

\* case MSG_QUIT of both servers: MSG_PLAYER_LEFT is written, then the handler ends
handle_client_MSG_QUIT(h) ==
    /\ hpc[h] = "cs"
    /\ players' = [players EXCEPT ![hslot[h]].state = PLAYER_DISCONNECTED]
    /\ num_players' = num_players - 1
    /\ Leave(h, Resp(h, "QUIT", "PLAYER_LEFT"), "exit")
    /\ Track(Ev("quit", hslot[h]))
    /\ UNCHANGED <<game_state, current_turn, winner_id, grid, cells_remaining,
                   turn_signal, nmoves, seq_score, movers>>

\* the state a Status answer carries
copy_state_to_message ==
    <<grid, players, cells_remaining, num_players, current_turn>>

\* case MSG_GAME_STATE of both servers: a snapshot is copied, nothing is written
handle_client_MSG_GAME_STATE(h) ==
    /\ hpc[h] = "cs"
    /\ Leave(h, Resp(h, "GAME_STATE", "GAME_STATE"), "read")
    /\ e2e' = E2E(e2e, Tau)
    /\ status_seen' = IF status_seen.on
                       THEN [on |-> TRUE, h |-> h, n |-> 1 - status_seen.n,
                             snap |-> copy_state_to_message]
                       ELSE status_seen
    /\ Watch
    /\ UNCHANGED <<shared, nmoves, seq_score, movers, visited, ledger, logging, pending>>

\* ------------------------------------------------------------------------
\* handle_client: MSG_JOIN
\* ------------------------------------------------------------------------
\* every slot in PLAYER_WAITING becomes PLAYER_ACTIVE
PromoteWaiting(ps) ==
    [i \in Slots |-> IF ps[i].state = PLAYER_WAITING
                     THEN [ps[i] EXCEPT !.state = PLAYER_ACTIVE] ELSE ps[i]]

\* the slot's Player after the first lines of case MSG_JOIN (the race server has
\* no placement counters: they stay 0)
JoinedPlayer(p) ==
    [p EXCEPT !.state = PLAYER_WAITING, !.score = 0,
              !.correct_placements = 0, !.wrong_placements = 0]

\* a start condition that does not count the players
can_start_any(n, gs) == gs = GAME_WAITING_FOR_PLAYERS

\* if (num_players >= MIN_PLAYERS && game_state == GAME_WAITING_FOR_PLAYERS)
can_start(n, gs) == n >= MIN_PLAYERS /\ gs = GAME_WAITING_FOR_PLAYERS

\* the hidden solution of the modelled grid: a Latin square with values 1 .. GridDim
Solution(c) == ((c[1] + c[2]) % GridDim) + 1

\* puzzles generate_puzzle can produce: the set of cells it empties
Puzzles == {R \in SUBSET Cells : Cardinality(R) = CellsToRemove}

\* the grid after generate_puzzle has emptied the cells of R
generate_puzzle(R) ==
    [c \in Cells |-> [solution |-> Solution(c),
                      value |-> IF c \in R THEN EMPTY_CELL ELSE Solution(c),
                      is_fixed |-> IF c \in R THEN 0 ELSE 1,
                      placed_by |-> -1]]

\* case MSG_JOIN of the sudoku server, up to the unlock and the write
handle_client_MSG_JOIN(h) ==
    LET s == hslot[h]
        joined == [players EXCEPT ![s] = JoinedPlayer(players[s])]
        n == num_players + 1
    IN
    /\ server = "sudoku"
    /\ hpc[h] = "cs"
    /\ num_players < MaxJoins
    /\ num_players' = n
    /\ seq_score' = [seq_score EXCEPT ![s] = 0]
    /\ IF can_start(n, game_state)
       THEN /\ \E R \in Puzzles : grid' = generate_puzzle(R)
            /\ cells_remaining' = CellsToRemove
            /\ game_state' = GAME_IN_PROGRESS
            /\ players' = PromoteWaiting(joined)
            /\ current_turn' = get_next_active_player(PromoteWaiting(joined), -1)
            /\ turn_signal' = turn_signal_incr(turn_signal)
            /\ movers' = {}
            /\ Leave(h, Resp(h, "JOIN", "GAME_START"), "chk")
       ELSE /\ players' = joined
            /\ Leave(h, Resp(h, "JOIN", "PLAYER_JOINED"), "chk")
            /\ UNCHANGED <<game_state, current_turn, grid, cells_remaining,
                           turn_signal, movers>>
    /\ Track(Ev("join", s))
    /\ UNCHANGED <<winner_id, nmoves>>

\* after the write of case MSG_JOIN the sudoku handler reads game_state and
\* current_turn without the lock and may call broadcast_turn_notification
handle_client_MSG_JOIN_notify(h) ==
    /\ hpc[h] = "chk"
    /\ hpc' = [hpc EXCEPT ![h] = IF game_state = GAME_IN_PROGRESS /\ current_turn >= 0
                                 THEN "btn" ELSE "read"]
    /\ Silent
    /\ Track(Tau)
    /\ UNCHANGED <<server, shared, game_lock, hslot, spc, mpc, mslot,
                   nmoves, seq_score, movers>>

\* case MSG_JOIN of the race server
handle_client_MSG_JOIN_race(h) ==
    LET s == hslot[h]
        joined == [players EXCEPT ![s] = JoinedPlayer(players[s])]
        n == num_players + 1
    IN
    /\ server = "race"
    /\ hpc[h] = "cs"
    /\ num_players < MaxJoins
    /\ num_players' = n
    /\ seq_score' = [seq_score EXCEPT ![s] = 0]
    /\ IF can_start(n, game_state)
       THEN /\ game_state' = GAME_IN_PROGRESS
            /\ players' = PromoteWaiting(joined)
            /\ current_turn' = get_next_active_player(PromoteWaiting(joined), -1)
            /\ movers' = {}
       ELSE /\ players' = joined
            /\ UNCHANGED <<game_state, current_turn, movers>>
    /\ Leave(h, Resp(h, "JOIN", "PLAYER_JOINED"), "read")
    /\ Track(Ev("join", s))
    /\ UNCHANGED <<winner_id, grid, cells_remaining, turn_signal, nmoves>>

\* ------------------------------------------------------------------------
\* handle_client: moves
\* ------------------------------------------------------------------------
\* a rejected request: the response is built and the lock released, no field written
Reject(h, req, r) ==
    /\ Leave(h, Resp(h, req, r), "read")
    /\ Track(Tau)
    /\ UNCHANGED <<shared, nmoves, seq_score, movers>>

\* a turn check that lets every slot through
not_your_turn_never(turn, player_id) == FALSE

\* if (game_state->current_turn != player_id)
not_your_turn(turn, player_id) == turn # player_id

\* the loops that pick the winner: the first Active slot with the highest score
\* above the starting max_score
RECURSIVE WinnerScan(_, _, _, _)
WinnerScan(ps, i, max_score, winner) ==
    IF i = MAX_PLAYERS THEN winner
    ELSE IF ps[i].state = PLAYER_ACTIVE /\ ps[i].score > max_score
         THEN WinnerScan(ps, i + 1, ps[i].score, i)
         ELSE WinnerScan(ps, i + 1, max_score, winner)

PickWinner(ps) == WinnerScan(ps, 0, -1000, -1)

\* a placement that moves the score but forgets the counters
PlacedPlayer_no_counter(p, correct) ==
    [p EXCEPT !.score = @ + (IF correct THEN POINTS_CORRECT ELSE POINTS_WRONG)]

\* the mover's Player after a placement: correct or wrong branch
PlacedPlayer(p, correct) ==
    IF correct
    THEN [p EXCEPT !.score = @ + POINTS_CORRECT, !.correct_placements = @ + 1]
    ELSE [p EXCEPT !.score = @ + POINTS_WRONG, !.wrong_placements = @ + 1]

\* the cell after a correct placement of value by player_id
PlacedCell(cell, value, player_id) ==
    [cell EXCEPT !.value = value, !.placed_by = player_id]

\* sequential reference of a placement's score change (README: +10 / -5)
SeqPlace(score, correct) == IF correct THEN score + 10 ELSE score - 5

\* a value test that lets every number through
bad_value_never(value) == FALSE

\* if (value < 1 || value > 9)
bad_value(value) == value < 1 \/ value > 9

\* an occupancy test that finds every cell empty
cell_is_filled_never(cell) == FALSE

\* if (cell->value != EMPTY_CELL)
cell_is_filled(cell) == cell.value # EMPTY_CELL

\* case MSG_PLACE of the sudoku server, up to the unlock, for the message
\* (row, col, value)
MSG_PLACE(h, row, col, value) ==
    LET s == hslot[h]
        c == <<row, col>>
    IN
    IF game_state # GAME_IN_PROGRESS THEN Reject(h, "PLACE", "ERROR")
    ELSE IF not_your_turn(current_turn, s) THEN Reject(h, "PLACE", "WAIT")
    ELSE IF row < 0 \/ row >= GridDim \/ col < 0 \/ col >= GridDim
         THEN Reject(h, "PLACE", "ERROR")
    ELSE IF bad_value(value) THEN Reject(h, "PLACE", "ERROR")
    ELSE IF grid[c].is_fixed # 0 THEN Reject(h, "PLACE", "ERROR")
    ELSE IF cell_is_filled(grid[c]) THEN Reject(h, "PLACE", "ERROR")
    ELSE LET correct == value = grid[c].solution
             ps1 == [players EXCEPT ![s] = PlacedPlayer(players[s], correct)]
             rem == IF correct THEN cells_remaining - 1 ELSE cells_remaining
             success == IF correct THEN 1 ELSE 0
         IN
         /\ players' = ps1
         /\ grid' = IF correct
                    THEN [grid EXCEPT ![c] = PlacedCell(grid[c], value, s)]
                    ELSE grid
         /\ cells_remaining' = rem
         /\ seq_score' = [seq_score EXCEPT ![s] = SeqPlace(@, correct)]
         /\ movers' = movers \cup {s}
         /\ nmoves' = nmoves + 1
         /\ IF rem <= 0
            THEN /\ winner_id' = PickWinner(ps1)
                 /\ game_state' = GAME_FINISHED
                 /\ Leave(h, PlaceResp(h, "GAME_OVER", row, col, value, success), "read")
                 /\ Track(Ev("over", s))
            ELSE /\ Leave(h, PlaceResp(h, "PLACE_RESULT", row, col, value, success), "adv")
                 /\ Track(Ev("move", s))
                 /\ UNCHANGED <<winner_id, game_state>>
         /\ UNCHANGED <<num_players, current_turn, turn_signal>>

\* the handler got a Place message: any position and value a client can send
handle_client_MSG_PLACE(h) ==
    /\ server = "sudoku"
    /\ hpc[h] = "cs"
    /\ nmoves < MaxMoves
    /\ \E c \in PlaceCoords, v \in PlaceValues : MSG_PLACE(h, c[1], c[2], v)

\* a roll that adds snake eyes like any other roll
RolledScore_no_reset(score, die1, die2) == score + (die1 + die2)

\* the mover's score after rolling die1 and die2
RolledScore(score, die1, die2) ==
    IF die1 = 1 /\ die2 = 1 THEN 0 ELSE score + (die1 + die2)

\* sequential reference of a roll's score change (README: sum added, snake eyes reset)
SeqRoll(score, die1, die2) == IF <<die1, die2>> = <<1, 1>> THEN 0 ELSE score + die1 + die2

\* a win check that never finds a winner
has_won_never(score) == FALSE

\* if (player->score >= WINNING_SCORE)
has_won(score) == score >= WINNING_SCORE

\* case MSG_ROLL of the race server, up to the unlock, for the dice die1, die2
MSG_ROLL(h, die1, die2) ==
    LET s == hslot[h]
        sc == RolledScore(players[s].score, die1, die2)
    IN
    IF game_state # GAME_IN_PROGRESS THEN Reject(h, "ROLL", "ERROR")
    ELSE IF not_your_turn(current_turn, s) THEN Reject(h, "ROLL", "WAIT")
    ELSE /\ players' = [players EXCEPT ![s].score = sc]
         /\ seq_score' = [seq_score EXCEPT ![s] = SeqRoll(@, die1, die2)]
         /\ movers' = movers \cup {s}
         /\ nmoves' = nmoves + 1
         /\ IF has_won(sc)
            THEN /\ winner_id' = s
                 /\ game_state' = GAME_FINISHED
                 /\ Leave(h, RollResp(h, "GAME_OVER", die1, die2), "read")
                 /\ Track(Ev("over", s))
            ELSE /\ Leave(h, RollResp(h, "ROLL_RESULT", die1, die2), "adv")
                 /\ Track(Ev("move", s))
                 /\ UNCHANGED <<winner_id, game_state>>
         /\ UNCHANGED <<num_players, current_turn, grid, cells_remaining,
                        turn_signal>>

\* the handler got a Roll message; the dice are drawn from DieFaces
handle_client_MSG_ROLL(h) ==
    /\ server = "race"
    /\ hpc[h] = "cs"
    /\ nmoves < MaxMoves
    /\ \E die1 \in DieFaces, die2 \in DieFaces : MSG_ROLL(h, die1, die2)

\* the same with the dice drawn from all of rand() % 6 + 1
handle_client_MSG_ROLL_d6(h) ==
    /\ server = "race"
    /\ hpc[h] = "cs"
    /\ nmoves < MaxMoves
    /\ \E die1 \in 1 .. 6, die2 \in 1 .. 6 : MSG_ROLL(h, die1, die2)

\* ------------------------------------------------------------------------
\* advance_turn, called by the handler after it released the lock
\* ------------------------------------------------------------------------
advance_turn_lock(h) ==
    /\ hpc[h] = "adv"
    /\ Acquire
    /\ hpc' = [hpc EXCEPT ![h] = "adv_cs"]
    /\ Silent
    /\ Track(Tau)
    /\ UNCHANGED <<server, shared, hslot, spc, mpc, mslot,
                   nmoves, seq_score, movers>>

\* body of advance_turn (turn_signal exists in the sudoku server only); after it
\* the response is written, and the sudoku handler goes on to
\* broadcast_grid_update and broadcast_turn_notification
advance_turn(h) ==
    LET next == get_next_active_player(players, current_turn) IN
    /\ hpc[h] = "adv_cs"
    /\ IF next >= 0
       THEN /\ current_turn' = next
            /\ turn_signal' = IF server = "sudoku" THEN turn_signal_incr(turn_signal)
                           ELSE turn_signal
            /\ movers' = {}
       ELSE UNCHANGED <<current_turn, turn_signal, movers>>
    /\ Release
    /\ hpc' = [hpc EXCEPT ![h] = IF server # "sudoku" THEN "read"
                                 ELSE IF update.on THEN "bgu" ELSE "btn"]
    /\ Silent
    /\ TrackTurn(Ev("adv", hslot[h]),
                 IF next >= 0 THEN MarkTurn(pending, game_state, current_turn, next)
                 ELSE pending)
    /\ UNCHANGED <<server, game_state, num_players, winner_id, players, grid,
                   cells_remaining, hslot, spc, mpc, mslot, nmoves, seq_score>>

\* ------------------------------------------------------------------------
\* Notifications of the sudoku server
\* ------------------------------------------------------------------------
\* broadcast_grid_update, no lock held: copy_state_to_message starts with the
\* two memcpy of grid and players
broadcast_grid_update_copy(h) ==
    /\ hpc[h] = "bgu"
    /\ hpc' = [hpc EXCEPT ![h] = "bgu2"]
    /\ update' = [Trail(update) EXCEPT !.part[h] = <<grid, players>>,
                                       !.trail[h] = {SnapshotNow}]
    /\ served' = Served(served, game_state, hslot)
    /\ Silent
    /\ UNCHANGED <<server, shared, game_lock, hslot, spc, mpc, mslot, history, ledger,
                   status_seen, logging, pending>>

\* the MSG_GRID_UPDATE of handler h once the copy ends with the fields read now
GridUpdate(h) ==
    <<update.part[h][1], update.part[h][2], cells_remaining, num_players, current_turn>>

\* broadcast_grid_update: cells_remaining, num_players and current_turn are
\* read and the message goes to the other Active slots; no shared field is written
broadcast_grid_update(h) ==
    /\ hpc[h] = "bgu2"
    /\ hpc' = [hpc EXCEPT ![h] = "btn"]
    /\ update' = [Trail(update) EXCEPT !.part[h] = <<>>, !.trail[h] = {}]
    /\ served' = Served(served, game_state, hslot)
    /\ Silent
    /\ UNCHANGED <<server, shared, game_lock, hslot, spc, mpc, mslot, history, ledger,
                   status_seen, logging, pending>>

broadcast_turn_notification_lock(h) ==
    /\ hpc[h] = "btn"
    /\ Acquire
    /\ hpc' = [hpc EXCEPT ![h] = "btn_cs"]
    /\ Silent
    /\ Track(Tau)
    /\ UNCHANGED <<server, shared, hslot, spc, mpc, mslot,
                   nmoves, seq_score, movers>>

\* a notification that skips the two early returns
your_turn_target_unchecked(gs, turn) == turn

\* the slot broadcast_turn_notification sends MSG_YOUR_TURN to, -1 when it
\* returns early (game not in progress, current_turn out of range)
your_turn_target(gs, turn) ==
    IF gs # GAME_IN_PROGRESS THEN -1
    ELSE IF turn < 0 \/ turn >= MAX_PLAYERS THEN -1
    ELSE turn

\* body of broadcast_turn_notification: messages are sent, no shared field written
broadcast_turn_notification(h) ==
    /\ hpc[h] = "btn_cs"
    /\ Release
    /\ hpc' = [hpc EXCEPT ![h] = "read"]
    /\ out' = IF your_turn_target(game_state, current_turn) = -1 THEN NoOut
              ELSE Notify(h, your_turn_target(game_state, current_turn))
    /\ TrackTurn(Tau, MarkTold(pending, your_turn_target(game_state, current_turn)))
    /\ UNCHANGED <<server, shared, hslot, spc, mpc, mslot,
                   nmoves, seq_score, movers>>

\* ------------------------------------------------------------------------
\* Round robin scheduler thread
\* ------------------------------------------------------------------------
scheduler_lock ==
    /\ spc = "run"
    /\ Acquire
    /\ spc' = "cs"
    /\ Silent
    /\ Track(Tau)
    /\ UNCHANGED <<server, shared, hpc, hslot, mpc, mslot,
                   nmoves, seq_score, movers>>

\* a scheduler that passes the turn on but never ends a game without players
SkipInactive_no_finish(gs, turn, ps) ==
    LET next == get_next_active_player(ps, turn) IN
    IF turn >= 0 /\ turn < MAX_PLAYERS /\ ps[turn].state # PLAYER_ACTIVE /\ next >= 0
    THEN [game_state |-> gs, current_turn |-> next, passed |-> TRUE]
    ELSE [game_state |-> gs, current_turn |-> turn, passed |-> FALSE]

\* first half of the scheduler's iteration while the game is in progress: the
\* current player is no longer Active, so the turn passes on or the game ends
SkipInactive(gs, turn, ps) ==
    LET next == get_next_active_player(ps, turn) IN
    IF turn >= 0 /\ turn < MAX_PLAYERS /\ ps[turn].state # PLAYER_ACTIVE
    THEN IF next >= 0
         THEN [game_state |-> gs, current_turn |-> next, passed |-> TRUE]
         ELSE [game_state |-> GAME_FINISHED, current_turn |-> turn, passed |-> FALSE]
    ELSE [game_state |-> gs, current_turn |-> turn, passed |-> FALSE]

\* one iteration of the scheduler loop of the sudoku server, lock held
scheduler_thread_func ==
    LET r == SkipInactive(game_state, current_turn, players)
        done == cells_remaining <= 0
    IN
    /\ server = "sudoku"
    /\ spc = "cs"
    /\ IF game_state = GAME_IN_PROGRESS
       THEN /\ current_turn' = r.current_turn
            /\ turn_signal' = IF r.passed THEN turn_signal_incr(turn_signal) ELSE turn_signal
            /\ movers' = IF r.passed THEN {} ELSE movers
            /\ game_state' = IF done THEN GAME_FINISHED ELSE r.game_state
            /\ winner_id' = IF done THEN PickWinner(players) ELSE winner_id
            /\ ledger' = IF done /\ PickWinner(players) >= 0
                          THEN LedgerAfter(ledger, players, PickWinner(players))
                          ELSE ledger
       ELSE UNCHANGED <<current_turn, turn_signal, movers, game_state, winner_id, ledger>>
    /\ Release
    /\ spc' = "run"
    /\ Silent
    /\ e2e' = E2E(e2e, Ev("sched", IF <<current_turn, game_state, winner_id>>'
                                     = <<current_turn, game_state, winner_id>> THEN 0 ELSE 1))
    /\ Watch
    /\ pending' = IF game_state = GAME_IN_PROGRESS
                  THEN MarkTurn(pending, game_state, current_turn, r.current_turn)
                  ELSE pending
    /\ UNCHANGED <<visited, status_seen, logging>>
    /\ UNCHANGED <<server, num_players, players, grid, cells_remaining, hpc, hslot,
                   mpc, mslot, nmoves, seq_score>>

\* one iteration of the scheduler loop of the race server, mutex held
scheduler_thread_func_race ==
    LET r == SkipInactive(game_state, current_turn, players) IN
    /\ server = "race"
    /\ spc = "cs"
    /\ IF game_state = GAME_IN_PROGRESS
       THEN /\ current_turn' = r.current_turn
            /\ movers' = IF r.passed THEN {} ELSE movers
            /\ game_state' = IF winner_id >= 0 THEN GAME_FINISHED ELSE r.game_state
       ELSE UNCHANGED <<current_turn, movers, game_state>>
    /\ Release
    /\ spc' = "run"
    /\ Silent
    /\ Track(Ev("sched", IF <<current_turn, game_state>>' = <<current_turn, game_state>>
                         THEN 0 ELSE 1))
    /\ UNCHANGED <<server, num_players, winner_id, players, grid, cells_remaining,
                   turn_signal, hpc, hslot, mpc, mslot, nmoves, seq_score>>

\* ------------------------------------------------------------------------
\* main of the race server: accept loop with game reset
\* ------------------------------------------------------------------------
main_scan_lock ==
    /\ server = "race"
    /\ mpc = "scan"
    /\ Acquire
    /\ mpc' = "scan_cs"
    /\ Silent
    /\ Track(Tau)
    /\ UNCHANGED <<server, shared, hpc, hslot, spc, mslot,
                   nmoves, seq_score, movers>>

\* for (i = 0; i < MAX_PLAYERS; i++) if (state == PLAYER_DISCONNECTED) { slot = i; break; }
FirstDisconnected(ps) ==
    LET D == {i \in Slots : ps[i].state = PLAYER_DISCONNECTED} IN
    IF D = {} THEN -1 ELSE CHOOSE i \in D : \A j \in D : i <= j

\* the locked scan at the top of the accept loop, and the branch taken after it:
\* reset when the game is finished, wait when no slot is free, else open the pipes
main_scan ==
    LET slot == FirstDisconnected(players)
        game_finished == game_state = GAME_FINISHED
    IN
    /\ mpc = "scan_cs"
    /\ mslot' = IF game_finished THEN -1 ELSE slot
    /\ Release
    /\ mpc' = IF game_finished THEN "reset" ELSE IF slot < 0 THEN "scan" ELSE "open"
    /\ Silent
    /\ Track(Tau)
    /\ UNCHANGED <<server, shared, hpc, hslot, spc, nmoves, seq_score, movers>>

\* the opens return when a client has the slot's pipes open; fork; the child
\* runs handle_client(slot)
main_fork ==
    /\ mpc = "open"
    /\ \E h \in Handlers :
        /\ hpc[h] = "unborn"
        /\ \A g \in Handlers : hpc[g] = "unborn" => h <= g
        /\ hpc' = [hpc EXCEPT ![h] = "read"]
        /\ hslot' = [hslot EXCEPT ![h] = mslot]
    /\ mpc' = "scan"
    /\ mslot' = -1
    /\ Silent
    /\ Track(Tau)
    /\ UNCHANGED <<server, shared, game_lock, spc, nmoves, seq_score, movers>>

main_reset_lock ==
    /\ mpc = "reset"
    /\ Acquire
    /\ mpc' = "reset_cs"
    /\ Silent
    /\ Track(Tau)
    /\ UNCHANGED <<server, shared, hpc, hslot, spc, mslot,
                   nmoves, seq_score, movers>>

\* body of reset_game_state
reset_game_state ==
    /\ mpc = "reset_cs"
    /\ game_state' = GAME_WAITING_FOR_PLAYERS
    /\ current_turn' = -1
    /\ winner_id' = -1
    /\ num_players' = 0
    /\ players' = [i \in Slots |->
                     [players[i] EXCEPT !.state = PLAYER_DISCONNECTED, !.score = 0]]
    /\ Release
    /\ mpc' = "scan"
    /\ seq_score' = [i \in Slots |-> 0]
    /\ movers' = {}
    /\ Silent
    /\ Track(Ev("reset", 0))
    /\ UNCHANGED <<server, grid, cells_remaining, turn_signal, hpc, hslot,
                   spc, mslot, nmoves>>

\* ------------------------------------------------------------------------
\* Specification
\* ------------------------------------------------------------------------
Next ==
    \/ accept_player_connections
    \/ main_scan_lock
    \/ main_scan
    \/ main_fork
    \/ main_reset_lock
    \/ reset_game_state
    \/ scheduler_lock
    \/ scheduler_thread_func
    \/ scheduler_thread_func_race
    \/ \E h \in Handlers :
        \/ handle_client_lock(h)
        \/ handle_client_default(h)
        \/ handle_client_disconnect(h)
        \/ handle_client_MSG_JOIN(h)
        \/ handle_client_MSG_JOIN_notify(h)
        \/ handle_client_MSG_JOIN_race(h)
        \/ handle_client_MSG_PLACE(h)
        \/ handle_client_MSG_ROLL(h)
        \/ handle_client_MSG_GAME_STATE(h)
        \/ handle_client_MSG_QUIT(h)
        \/ advance_turn_lock(h)
        \/ advance_turn(h)
        \/ broadcast_turn_notification_lock(h)
        \/ broadcast_turn_notification(h)

Spec == Init /\ [][Next]_vars

\* the servers with a scheduler that keeps running: a process that holds the
\* game lock runs on to its unlock (the critical sections do not wait for
\* anything), and the scheduler, which polls for ever, gets the lock in the end
LockHolderStep == game_lock = 1 /\ Next /\ game_lock' = 0

FairSpec == Spec /\ WF_vars(LockHolderStep) /\ SF_vars(scheduler_lock)

\* ------------------------------------------------------------------------
\* get_next_active_player on its own: every assignment of connection states,
\* every starting index, and advance_turn's use of the result, repeated
\* ------------------------------------------------------------------------
InitWalk ==
    /\ server \in {"sudoku", "race"}
    /\ game_state = GAME_IN_PROGRESS
    /\ num_players = 0
    /\ current_turn \in -1 .. (MAX_PLAYERS - 1)
    /\ winner_id = -1
    /\ \E a \in [Slots -> PlayerStates] :
          players = [i \in Slots |-> [InitPlayer EXCEPT !.state = a[i]]]
    /\ grid = [c \in Cells |-> InitCell]
    /\ cells_remaining = 0
    /\ turn_signal = 0
    /\ game_lock = 0
    /\ hpc = [h \in Handlers |-> "unborn"]
    /\ hslot = [h \in Handlers |-> -1]
    /\ out = NoOut
    /\ spc = "run"
    /\ mpc = "walk"
    /\ mslot = -1
    /\ nmoves = 0
    /\ seq_score = [i \in Slots |-> 0]
    /\ movers = {}
    /\ e2e = -1
    /\ visited = <<current_turn>>
    /\ ledger = [i \in Slots |-> InitEntry]
    /\ status_seen = StatusOff
    /\ LoggingIdle
    /\ WatchOff

\* int next = get_next_active_player(current_turn); if (next >= 0) current_turn = next;
advance_walk ==
    LET next == get_next_active_player(players, current_turn) IN
    /\ mpc = "walk"
    /\ Len(visited) <= MaxAdvances
    /\ visited' = Append(visited, next)
    /\ current_turn' = IF next >= 0 THEN next ELSE current_turn
    /\ UNCHANGED <<server, game_state, num_players, winner_id, players, grid,
                   cells_remaining, turn_signal, game_lock, procs, out,
                   nmoves, seq_score, movers, e2e, ledger, status_seen, logging, watch>>

WalkSpec == InitWalk /\ [][advance_walk]_vars

\* ------------------------------------------------------------------------
\* The race server in the middle of a game: slots 0 and 1 are Active, it is
\* slot 0's turn with a score far from or close to WINNING_SCORE, num_players
\* is 3 (slot 0 sent Join twice before slot 1 joined), a third client has not
\* connected yet; the dice are drawn from 1 .. 6
\* ------------------------------------------------------------------------
PriorScores == {0, 88, 99}

InitRace ==
    /\ server = "race"
    /\ game_state = GAME_IN_PROGRESS
    /\ num_players = 3
    /\ current_turn = 0
    /\ winner_id = -1
    /\ \E a \in PriorScores, b \in {88} :
          players = [i \in Slots |->
                       IF i = 0 THEN [InitPlayer EXCEPT !.state = PLAYER_ACTIVE, !.score = a]
                       ELSE IF i = 1
                       THEN [InitPlayer EXCEPT !.state = PLAYER_ACTIVE, !.score = b]
                       ELSE InitPlayer]
    /\ grid = [c \in Cells |-> InitCell]
    /\ cells_remaining = 0
    /\ turn_signal = 0
    /\ game_lock = 0
    /\ hpc = [h \in Handlers |-> IF h \in {0, 1} THEN "read" ELSE "unborn"]
    /\ hslot = [h \in Handlers |-> IF h \in {0, 1} THEN h ELSE -1]
    /\ out = NoOut
    /\ spc = "run"
    /\ mpc = "scan"
    /\ mslot = -1
    /\ nmoves = 0
    /\ seq_score = [i \in Slots |-> players[i].score]
    /\ movers = {}
    /\ e2e = -1
    /\ visited = <<>>
    /\ ledger = [i \in Slots |-> InitEntry]
    /\ status_seen = StatusOff
    /\ LoggingIdle
    /\ WatchOff

NextRace ==
    \/ main_scan_lock
    \/ main_scan
    \/ main_fork
    \/ main_reset_lock
    \/ reset_game_state
    \/ scheduler_lock
    \/ scheduler_thread_func_race
    \/ \E h \in Handlers :
        \/ handle_client_lock(h)
        \/ handle_client_default(h)
        \/ handle_client_disconnect(h)
        \/ handle_client_MSG_JOIN_race(h)
        \/ handle_client_MSG_ROLL_d6(h)
        \/ handle_client_MSG_GAME_STATE(h)
        \/ handle_client_MSG_QUIT(h)
        \/ advance_turn_lock(h)
        \/ advance_turn(h)

RaceSpec == InitRace /\ [][NextRace]_vars

\* ------------------------------------------------------------------------
\* The last placement of a sudoku game: one cell is left, it is the mover's
\* turn and its handler holds the lock with a Place message read; the players
\* have any connection states and the scores a long game can leave them with
\* (every wrong placement costs POINTS_WRONG and fills no cell, so a score has
\* no lower limit short of the width of int)
\* ------------------------------------------------------------------------
FinalScores == {-1010, -1000, 0}

\* a Player of the given state with the given number of correct placements
\* and as many wrong ones as its score takes
PlayerAt(state, score, correct) ==
    [InitPlayer EXCEPT !.state = state, !.score = score,
                       !.correct_placements = correct,
                       !.wrong_placements =
                           (correct * POINTS_CORRECT - score) \div (0 - POINTS_WRONG)]

LastCell == <<0, 0>>

\* the grid with every emptied cell but LastCell filled by the mover
LastGrid(mover) ==
    LET R == CHOOSE R \in Puzzles : LastCell \in R IN
    [c \in Cells |-> IF c \in R /\ c # LastCell
                     THEN PlacedCell(generate_puzzle(R)[c], Solution(c), mover)
                     ELSE generate_puzzle(R)[c]]

InitWinner ==
    /\ server = "sudoku"
    /\ game_state = GAME_IN_PROGRESS
    /\ current_turn \in Slots
    /\ winner_id = -1
    /\ \E st \in [Slots -> {PLAYER_ACTIVE, PLAYER_DISCONNECTED}],
          sc \in [Slots -> FinalScores] :
          /\ st[current_turn] = PLAYER_ACTIVE
          /\ players = [i \in Slots |->
                          PlayerAt(st[i], sc[i],
                                   IF i = current_turn THEN CellsToRemove - 1 ELSE 0)]
    /\ num_players = count_active_players(players)
    /\ grid = LastGrid(current_turn)
    /\ cells_remaining = 1
    /\ turn_signal = 1
    /\ game_lock = 1
    /\ hpc = [h \in Handlers |-> IF h = 0 THEN "cs" ELSE "unborn"]
    /\ hslot = [h \in Handlers |-> IF h = 0 THEN current_turn ELSE -1]
    /\ out = NoOut
    /\ spc = "run"
    /\ mpc = "accept"
    /\ mslot = MAX_PLAYERS
    /\ nmoves = 0
    /\ seq_score = [i \in Slots |-> players[i].score]
    /\ movers = {}
    /\ e2e = -1
    /\ visited = <<>>
    /\ ledger = [i \in Slots |-> InitEntry]
    /\ status_seen = StatusOff
    /\ LoggingIdle
    /\ WatchOff

NextWinner == \E h \in Handlers : handle_client_MSG_PLACE(h)

WinnerSpec == InitWinner /\ [][NextWinner]_vars

\* ------------------------------------------------------------------------
\* The sudoku server from the start of a game: three players have joined and
\* been promoted, it is slot 0's turn, every handler waits for a message; the
\* Status history is kept
\* ------------------------------------------------------------------------
InitStatus ==
    /\ server = "sudoku"
    /\ game_state = GAME_IN_PROGRESS
    /\ num_players = MIN_PLAYERS
    /\ current_turn = 0
    /\ winner_id = -1
    /\ players = [i \in Slots |-> IF i < MIN_PLAYERS
                                  THEN [InitPlayer EXCEPT !.state = PLAYER_ACTIVE]
                                  ELSE InitPlayer]
    /\ grid = generate_puzzle(CHOOSE R \in Puzzles : LastCell \in R)
    /\ cells_remaining = CellsToRemove
    /\ turn_signal = 1
    /\ game_lock = 0
    /\ hpc = [h \in Handlers |-> IF h < MIN_PLAYERS THEN "read" ELSE "unborn"]
    /\ hslot = [h \in Handlers |-> IF h < MIN_PLAYERS THEN h ELSE -1]
    /\ out = NoOut
    /\ spc = "run"
    /\ mpc = "accept"
    /\ mslot = MIN_PLAYERS
    /\ nmoves = 0
    /\ seq_score = [i \in Slots |-> 0]
    /\ movers = {}
    /\ e2e = -1
    /\ visited = <<>>
    /\ ledger = [i \in Slots |-> InitEntry]
    /\ status_seen = StatusOn
    /\ LoggingIdle
    /\ WatchOff

NextStatus ==
    \/ scheduler_lock
    \/ scheduler_thread_func
    \/ \E h \in Handlers :
        \/ handle_client_lock(h)
        \/ handle_client_default(h)
        \/ handle_client_disconnect(h)
        \/ handle_client_MSG_JOIN(h)
        \/ handle_client_MSG_JOIN_notify(h)
        \/ handle_client_MSG_PLACE(h)
        \/ handle_client_MSG_GAME_STATE(h)
        \/ handle_client_MSG_QUIT(h)
        \/ advance_turn_lock(h)
        \/ advance_turn(h)
        \/ broadcast_turn_notification_lock(h)
        \/ broadcast_turn_notification(h)

StatusSpec == InitStatus /\ [][NextStatus]_vars

\* ------------------------------------------------------------------------
\* The sudoku server in the middle of a game, with the histories of the turn
\* notifications and of the grid updates
\* ------------------------------------------------------------------------
\* a game of MIN_PLAYERS players has just started and its handlers are back at
\* their read
MidGame ==
    /\ server = "sudoku"
    /\ game_state = GAME_IN_PROGRESS
    /\ num_players = MIN_PLAYERS
    /\ current_turn = 0
    /\ winner_id = -1
    /\ players = [i \in Slots |-> IF i < MIN_PLAYERS
                                  THEN [InitPlayer EXCEPT !.state = PLAYER_ACTIVE]
                                  ELSE InitPlayer]
    /\ grid \in {generate_puzzle(R) : R \in Puzzles}
    /\ cells_remaining = CellsToRemove
    /\ turn_signal = 1
    /\ game_lock = 0
    /\ hpc = [h \in Handlers |-> IF h < MIN_PLAYERS THEN "read" ELSE "unborn"]
    /\ hslot = [h \in Handlers |-> IF h < MIN_PLAYERS THEN h ELSE -1]
    /\ out = NoOut
    /\ spc = "run"
    /\ mpc = "accept"
    /\ mslot = MIN_PLAYERS
    /\ nmoves = 0
    /\ seq_score = [i \in Slots |-> 0]
    /\ movers = {}
    /\ e2e = -1
    /\ visited = <<>>
    /\ ledger = [i \in Slots |-> InitEntry]
    /\ status_seen = StatusOff
    /\ LoggingIdle
    /\ served = ServedOff

InitNotify ==
    /\ MidGame
    /\ pending = "no"
    /\ update = UpdateOff

\* the scheduler polls for ever, a process that holds the game lock runs on to
\* its unlock, and a handler that is on its way from a request to its next
\* read keeps asking for the lock until it gets it; nothing is assumed about
\* when a client sends a request
NotifySpec ==
    /\ InitNotify
    /\ [][NextStatus]_vars
    /\ WF_vars(game_lock = 1 /\ NextStatus /\ game_lock' = 0)
    /\ SF_vars(scheduler_lock)
    /\ \A h \in Handlers :
          /\ SF_vars(advance_turn_lock(h))
          /\ SF_vars(broadcast_turn_notification_lock(h))
          /\ WF_vars(handle_client_MSG_JOIN_notify(h))

InitSnap ==
    /\ MidGame
    /\ pending = "off"
    /\ update = UpdateOn

NextSnap ==
    \/ NextStatus
    \/ \E h \in Handlers :
        \/ broadcast_grid_update_copy(h)
        \/ broadcast_grid_update(h)

SnapSpec == InitSnap /\ [][NextSnap]_vars

\* ------------------------------------------------------------------------
\* The sudoku server from the start of a game, with handler processes that can
\* be killed or crash at any point (the lock word lives in shared memory and
\* spin_lock records no owner)
\* ------------------------------------------------------------------------
InitCrash ==
    /\ server = "sudoku"
    /\ game_state = GAME_IN_PROGRESS
    /\ num_players = MIN_PLAYERS
    /\ current_turn = 0
    /\ winner_id = -1
    /\ players = [i \in Slots |-> IF i < MIN_PLAYERS
                                  THEN [InitPlayer EXCEPT !.state = PLAYER_ACTIVE]
                                  ELSE InitPlayer]
    /\ grid = generate_puzzle(CHOOSE R \in Puzzles : LastCell \in R)
    /\ cells_remaining = CellsToRemove
    /\ turn_signal = 1
    /\ game_lock = 0
    /\ hpc = [h \in Handlers |-> IF h < MIN_PLAYERS THEN "read" ELSE "unborn"]
    /\ hslot = [h \in Handlers |-> IF h < MIN_PLAYERS THEN h ELSE -1]
    /\ out = NoOut
    /\ spc = "run"
    /\ mpc = "accept"
    /\ mslot = MIN_PLAYERS
    /\ nmoves = 0
    /\ seq_score = [i \in Slots |-> 0]
    /\ movers = {}
    /\ e2e = -1
    /\ visited = <<>>
    /\ ledger = [i \in Slots |-> InitEntry]
    /\ status_seen = StatusOff
    /\ LoggingIdle
    /\ WatchOff

\* the process of handler h ends where it stands: nothing it would have done
\* later happens, shared memory stays as it is
handler_killed(h) ==
    /\ hpc[h] \notin {"unborn", "exit"}
    /\ hpc' = [hpc EXCEPT ![h] = "exit"]
    /\ hslot' = [hslot EXCEPT ![h] = -1]
    /\ Silent
    /\ Track(Tau)
    /\ UNCHANGED <<server, shared, game_lock, spc, mpc, mslot, nmoves, seq_score, movers>>

NextCrash ==
    \/ scheduler_lock
    \/ scheduler_thread_func
    \/ \E h \in Handlers :
        \/ handle_client_lock(h)
        \/ handle_client_default(h)
        \/ handle_client_disconnect(h)
        \/ handle_client_MSG_JOIN(h)
        \/ handle_client_MSG_JOIN_notify(h)
        \/ handle_client_MSG_PLACE(h)
        \/ handle_client_MSG_GAME_STATE(h)
        \/ handle_client_MSG_QUIT(h)
        \/ advance_turn_lock(h)
        \/ advance_turn(h)
        \/ broadcast_turn_notification_lock(h)
        \/ broadcast_turn_notification(h)
        \/ handler_killed(h)

CrashSpec == InitCrash /\ [][NextCrash]_vars

\* ------------------------------------------------------------------------
\* The race server in the middle of a game with processes that keep running:
\* whoever holds the mutex runs on to its unlock, and the scheduler and the
\* accept loop get the mutex when they ask for it.  Nothing is assumed about
\* clients: the accept loop's open of a free slot's pipes returns only if a
\* client connects.
\* ------------------------------------------------------------------------
NextReset ==
    \/ main_scan_lock
    \/ main_scan
    \/ main_fork
    \/ main_reset_lock
    \/ reset_game_state
    \/ scheduler_lock
    \/ scheduler_thread_func_race
    \/ \E h \in Handlers :
        \/ handle_client_lock(h)
        \/ handle_client_default(h)
        \/ handle_client_disconnect(h)
        \/ handle_client_MSG_JOIN_race(h)
        \/ handle_client_MSG_ROLL(h)
        \/ handle_client_MSG_GAME_STATE(h)
        \/ handle_client_MSG_QUIT(h)
        \/ advance_turn_lock(h)
        \/ advance_turn(h)

MutexHolderStep == game_lock = 1 /\ NextReset /\ game_lock' = 0

ResetSpec ==
    /\ InitRace
    /\ [][NextReset]_vars
    /\ WF_vars(MutexHolderStep)
    /\ SF_vars(scheduler_lock)
    /\ SF_vars(main_scan_lock)
    /\ SF_vars(main_reset_lock)

\* ------------------------------------------------------------------------
\* The race server in the middle of a game, with the history of the slots
\* ------------------------------------------------------------------------
InitSlots ==
    /\ server = "race"
    /\ game_state = GAME_IN_PROGRESS
    /\ num_players = 3
    /\ current_turn = 0
    /\ winner_id = -1
    /\ players = [i \in Slots |-> IF i \in {0, 1}
                                  THEN [InitPlayer EXCEPT !.state = PLAYER_ACTIVE]
                                  ELSE InitPlayer]
    /\ grid = [c \in Cells |-> InitCell]
    /\ cells_remaining = 0
    /\ turn_signal = 0
    /\ game_lock = 0
    /\ hpc = [h \in Handlers |-> IF h \in {0, 1} THEN "read" ELSE "unborn"]
    /\ hslot = [h \in Handlers |-> IF h \in {0, 1} THEN h ELSE -1]
    /\ out = NoOut
    /\ spc = "run"
    /\ mpc = "scan"
    /\ mslot = -1
    /\ nmoves = 0
    /\ seq_score = [i \in Slots |-> 0]
    /\ movers = {}
    /\ e2e = -1
    /\ visited = <<>>
    /\ ledger = [i \in Slots |-> InitEntry]
    /\ status_seen = StatusOff
    /\ LoggingIdle
    /\ served = ServedOn
    /\ pending = "off"
    /\ update = UpdateOff

SlotSpec == InitSlots /\ [][NextReset]_vars

\* ------------------------------------------------------------------------
\* Logging and shutdown of the sudoku server: the main thread, the scheduler
\* thread and the logger thread of the server process, one handler process, and
\* a SIGINT or SIGTERM whose handler runs on one of the server's threads.  The
\* game itself is left out: whether an iteration of the scheduler or a request
\* of the handler logs something is a free choice.
\* ------------------------------------------------------------------------
InitLog ==
    /\ server = "sudoku"
    /\ game_state = GAME_WAITING_FOR_PLAYERS
    /\ num_players = 0
    /\ current_turn = -1
    /\ winner_id = -1
    /\ players = [i \in Slots |-> InitPlayer]
    /\ grid = [c \in Cells |-> InitCell]
    /\ cells_remaining = 0
    /\ turn_signal = 0
    /\ game_lock = 0
    /\ hpc = [h \in Handlers |-> "unborn"]
    /\ hslot = [h \in Handlers |-> -1]
    /\ out = NoOut
    /\ spc = "log"
    /\ mpc = "log"
    /\ mslot = -1
    /\ nmoves = 0
    /\ seq_score = [i \in Slots |-> 0]
    /\ movers = {}
    /\ e2e = -1
    /\ visited = <<>>
    /\ ledger = [i \in Slots |-> InitEntry]
    /\ status_seen = StatusOff
    /\ log_queue = InitLogQueue
    /\ log_file = <<>>
    /\ server_running = 1
    /\ scores_lock = 0
    /\ tpc = [t \in Threads |->
                IF t = "main" THEN "start" ELSE IF t = "sched" THEN "init"
                ELSE IF t = "logger" THEN "idle" ELSE "off"]
    /\ sig = NoSignal
    /\ accepted = <<>>
    /\ nlogs = 0
    /\ WatchOff

\* the game view does not move while the logging view runs
GameIdle == UNCHANGED <<server, shared, procs, out, history, ledger, status_seen, watch>>

\* a thread runs unless sigint_handler is running on it
Runnable(t) == sig.t # t \/ sig.pc = "done"

Goto(t, pc) == tpc' = [tpc EXCEPT ![t] = pc]

\* the entry a thread enqueues: who wrote it and its number among the accepted
LogMsg(t) == <<t, Len(accepted) + 1>>

\* a logger that takes the entry written last
newest_index(q) == (q.tail + LogQueueCap - 1) % LogQueueCap

\* LogEntry *entry = &log_queue->entries[log_queue->head]
oldest_index(q) == q.head

\* (i + 1) % LOG_QUEUE_SIZE
next_index(i) == (i + 1) % LogQueueCap

\* a full test that always finds room
queue_has_room_always(q) == TRUE

\* if (log_queue->count < LOG_QUEUE_SIZE)
queue_has_room(q) == q.count < LogQueueCap

\* spin_lock(&log_queue->lock) by thread t at position from
log_lock(t, from, to) ==
    /\ tpc[t] = from
    /\ Runnable(t)
    /\ log_queue.lock = 0
    /\ log_queue' = [log_queue EXCEPT !.lock = 1]
    /\ Goto(t, to)
    /\ UNCHANGED <<log_file, server_running, scores_lock, sig, accepted, nlogs, game_lock>>
    /\ GameIdle

\* body of enqueue_log up to the unlock: the entry is stored unless the queue is full
enqueue_log(t, from, to) ==
    /\ tpc[t] = from
    /\ Runnable(t)
    /\ IF queue_has_room(log_queue)
       THEN /\ log_queue' = [log_queue EXCEPT !.entries[log_queue.tail] = LogMsg(t),
                                              !.tail = next_index(log_queue.tail),
                                              !.count = @ + 1,
                                              !.lock = 0]
            /\ accepted' = Append(accepted, LogMsg(t))
       ELSE /\ log_queue' = [log_queue EXCEPT !.lock = 0]
            /\ UNCHANGED accepted
    /\ Goto(t, to)
    /\ UNCHANGED <<log_file, server_running, scores_lock, sig, nlogs, game_lock>>
    /\ GameIdle

\* main: enqueue_log("=== SUDOKU SERVER STARTED ===")
main_started_lock == log_lock("main", "start", "start_cs")
main_started == enqueue_log("main", "start_cs", "serve")

\* main: accept_player_connections forks a handler
main_fork_handler ==
    /\ tpc["main"] = "serve"
    /\ Runnable("main")
    /\ server_running = 1
    /\ tpc["handler"] = "off"
    /\ Goto("handler", "h_idle")
    /\ UNCHANGED <<log_queue, log_file, server_running, scores_lock, sig, accepted, nlogs,
                   game_lock>>
    /\ GameIdle

\* main: while (server_running) sleep(1);
main_wait ==
    /\ tpc["main"] = "serve"
    /\ Runnable("main")
    /\ server_running = 0
    /\ Goto("main", "bye")
    /\ UNCHANGED <<log_queue, log_file, server_running, scores_lock, sig, accepted, nlogs,
                   game_lock>>
    /\ GameIdle

\* main: enqueue_log("=== SERVER SHUTDOWN ===")
main_shutdown_lock == log_lock("main", "bye", "bye_cs")
main_shutdown == enqueue_log("main", "bye_cs", "save")

\* main: save_scores(): fopen(SCORES_FILE, "w") truncates the file, before the
\* lock is asked for
main_save_open ==
    /\ tpc["main"] = "save"
    /\ Runnable("main")
    /\ Goto("main", "save_open")
    /\ UNCHANGED <<log_queue, log_file, server_running, scores_lock, sig, accepted, nlogs,
                   game_lock>>
    /\ GameIdle

\* main: save_scores(): spin_lock(&scores->lock)
main_save_lock ==
    /\ tpc["main"] = "save_open"
    /\ Runnable("main")
    /\ scores_lock = 0
    /\ scores_lock' = 1
    /\ Goto("main", "save_cs")
    /\ UNCHANGED <<log_queue, log_file, server_running, sig, accepted, nlogs, game_lock>>
    /\ GameIdle

\* main: save_scores(): the entries are written, spin_unlock(&scores->lock),
\* fclose
main_save ==
    /\ tpc["main"] = "save_cs"
    /\ Runnable("main")
    /\ scores_lock' = 0
    /\ Goto("main", "flag")
    /\ UNCHANGED <<log_queue, log_file, server_running, sig, accepted, nlogs, game_lock>>
    /\ GameIdle

\* main: spin_lock(&log_queue->lock); log_queue->shutdown = 1; spin_unlock
main_flag_lock == log_lock("main", "flag", "flag_cs")

main_flag ==
    /\ tpc["main"] = "flag_cs"
    /\ Runnable("main")
    /\ log_queue' = [log_queue EXCEPT !.shutdown = 1, !.lock = 0]
    /\ Goto("main", "join_sched")
    /\ UNCHANGED <<log_file, server_running, scores_lock, sig, accepted, nlogs, game_lock>>
    /\ GameIdle

\* main: pthread_join(scheduler_thread), pthread_join(logger_thread), then the
\* handlers are signalled and the pipes and shared memory are removed
main_join ==
    /\ Runnable("main")
    /\ \/ tpc["main"] = "join_sched" /\ tpc["sched"] = "done" /\ Goto("main", "join_logger")
       \/ tpc["main"] = "join_logger" /\ tpc["logger"] = "done" /\ Goto("main", "cleanup")
    /\ UNCHANGED <<log_queue, log_file, server_running, scores_lock, sig, accepted, nlogs,
                   game_lock>>
    /\ GameIdle

\* scheduler: enqueue_log("Round Robin Scheduler initialized for Sudoku")
sched_init_lock == log_lock("sched", "init", "init_cs")
sched_init == enqueue_log("sched", "init_cs", "run")

\* scheduler: while (server_running) { spin_lock(&game_state->game_lock);
sched_loop ==
    /\ tpc["sched"] = "run"
    /\ Runnable("sched")
    /\ IF server_running = 0
       THEN Goto("sched", "done") /\ UNCHANGED game_lock
       ELSE game_lock = 0 /\ game_lock' = 1 /\ Goto("sched", "g_cs")
    /\ UNCHANGED <<log_queue, log_file, server_running, scores_lock, sig, accepted, nlogs>>
    /\ GameIdle

\* scheduler, lock held: the turn is passed on and logged, or nothing is to do
sched_body ==
    /\ tpc["sched"] = "g_cs"
    /\ Runnable("sched")
    /\ \/ nlogs < MaxLogs /\ nlogs' = nlogs + 1 /\ Goto("sched", "g_log")
          /\ UNCHANGED game_lock
       \/ game_lock' = 0 /\ Goto("sched", "run") /\ UNCHANGED nlogs
    /\ UNCHANGED <<log_queue, log_file, server_running, scores_lock, sig, accepted>>
    /\ GameIdle

\* scheduler: enqueue_log("Scheduler: Turn passed to ...") inside the game lock
sched_log_lock == log_lock("sched", "g_log", "g_log_cs")
sched_log == enqueue_log("sched", "g_log_cs", "g_out")

\* a scheduler that leaves its critical section without the unlock
sched_unlock_forgotten ==
    /\ tpc["sched"] = "g_out"
    /\ Runnable("sched")
    /\ Goto("sched", "run")
    /\ UNCHANGED <<log_queue, log_file, server_running, scores_lock, sig, accepted, nlogs,
                   game_lock>>
    /\ GameIdle

\* scheduler: spin_unlock(&game_state->game_lock); usleep
sched_unlock ==
    /\ tpc["sched"] = "g_out"
    /\ Runnable("sched")
    /\ game_lock' = 0
    /\ Goto("sched", "run")
    /\ UNCHANGED <<log_queue, log_file, server_running, scores_lock, sig, accepted, nlogs>>
    /\ GameIdle

\* handler: a request is read and the game lock taken (case MSG_JOIN)
handler_request ==
    /\ tpc["handler"] = "h_idle"
    /\ nlogs < MaxLogs
    /\ game_lock = 0
    /\ game_lock' = 1
    /\ nlogs' = nlogs + 1
    /\ Goto("handler", "h_cs")
    /\ UNCHANGED <<log_queue, log_file, server_running, scores_lock, sig, accepted>>
    /\ GameIdle

\* handler: enqueue_log("Player %d joined ...") inside the game lock
handler_log_lock == log_lock("handler", "h_cs", "h_log_cs")
handler_log == enqueue_log("handler", "h_log_cs", "h_out")

\* handler: spin_unlock(&game_state->game_lock)
handler_unlock ==
    /\ tpc["handler"] = "h_out"
    /\ game_lock' = 0
    /\ Goto("handler", "h_idle")
    /\ UNCHANGED <<log_queue, log_file, server_running, scores_lock, sig, accepted, nlogs>>
    /\ GameIdle

\* logger: spin_lock(&log_queue->lock) at the top of its loop
logger_lock == log_lock("logger", "idle", "cs")

\* logger, lock held: one pass of while (count > 0), or the end of it with
\* should_exit = shutdown && count == 0, the unlock and the break
logger_thread_func ==
    /\ tpc["logger"] = "cs"
    /\ Runnable("logger")
    /\ IF log_queue.count > 0
       THEN /\ log_file' = Append(log_file, log_queue.entries[oldest_index(log_queue)])
            /\ log_queue' = [log_queue EXCEPT !.head = next_index(log_queue.head),
                                              !.count = @ - 1]
            /\ UNCHANGED tpc
       ELSE /\ log_queue' = [log_queue EXCEPT !.lock = 0]
            /\ Goto("logger", IF log_queue.shutdown = 1 THEN "done" ELSE "idle")
            /\ UNCHANGED log_file
    /\ UNCHANGED <<server_running, scores_lock, sig, accepted, nlogs, game_lock>>
    /\ GameIdle

\* SIGINT or SIGTERM arrives: sigint_handler starts on a thread of the server
\* process, which stops where it is; server_running = 0
sigint_handler_start ==
    /\ sig.pc = "idle"
    /\ \E t \in ServerThreads :
          /\ tpc[t] \notin {"done", "cleanup"}
          /\ sig' = [t |-> t, pc |-> "save"]
    /\ server_running' = 0
    /\ UNCHANGED <<log_queue, log_file, scores_lock, tpc, accepted, nlogs, game_lock>>
    /\ GameIdle

\* sigint_handler: save_scores(): fopen(SCORES_FILE, "w")
sigint_handler_open ==
    /\ sig.pc = "save"
    /\ sig' = [sig EXCEPT !.pc = "save_open"]
    /\ UNCHANGED <<log_queue, log_file, server_running, scores_lock, tpc, accepted, nlogs,
                   game_lock>>
    /\ GameIdle

\* sigint_handler: save_scores() takes scores->lock, writes, releases it and
\* closes the file
sigint_handler_save ==
    /\ sig.pc = "save_open"
    /\ scores_lock = 0
    /\ sig' = [sig EXCEPT !.pc = "shut"]
    /\ UNCHANGED <<log_queue, log_file, server_running, scores_lock, tpc, accepted, nlogs,
                   game_lock>>
    /\ GameIdle

\* sigint_handler: spin_lock(&log_queue->lock)
sigint_handler_lock ==
    /\ sig.pc = "shut"
    /\ log_queue.lock = 0
    /\ log_queue' = [log_queue EXCEPT !.lock = 1]
    /\ sig' = [sig EXCEPT !.pc = "shut_cs"]
    /\ UNCHANGED <<log_file, server_running, scores_lock, tpc, accepted, nlogs, game_lock>>
    /\ GameIdle

\* sigint_handler: log_queue->shutdown = 1; spin_unlock; return
sigint_handler ==
    /\ sig.pc = "shut_cs"
    /\ log_queue' = [log_queue EXCEPT !.shutdown = 1, !.lock = 0]
    /\ sig' = [sig EXCEPT !.pc = "done"]
    /\ UNCHANGED <<log_file, server_running, scores_lock, tpc, accepted, nlogs, game_lock>>
    /\ GameIdle

MainStep ==
    \/ main_started_lock
    \/ main_started
    \/ main_fork_handler
    \/ main_wait
    \/ main_shutdown_lock
    \/ main_shutdown
    \/ main_save_open
    \/ main_save_lock
    \/ main_save
    \/ main_flag_lock
    \/ main_flag
    \/ main_join

SchedStep ==
    \/ sched_init_lock
    \/ sched_init
    \/ sched_loop
    \/ sched_body
    \/ sched_log_lock
    \/ sched_log
    \/ sched_unlock

LoggerStep == logger_lock \/ logger_thread_func

HandlerStep == handler_request \/ handler_log_lock \/ handler_log \/ handler_unlock

SigStep == sigint_handler_open \/ sigint_handler_save \/ sigint_handler_lock \/ sigint_handler

NextLog == MainStep \/ SchedStep \/ LoggerStep \/ HandlerStep \/ SigStep \/ sigint_handler_start

\* every thread of the server keeps running and gets a lock it asks for when
\* the lock is free again and again; a handler that took a lock runs on to its
\* unlock; nothing is assumed about when a signal or a request arrives
LogSpec ==
    /\ InitLog
    /\ [][NextLog]_vars
    /\ SF_vars(MainStep)
    /\ SF_vars(SchedStep)
    /\ SF_vars(LoggerStep)
    /\ SF_vars(SigStep)
    /\ SF_vars(handler_log_lock \/ handler_log \/ handler_unlock)

\* ------------------------------------------------------------------------
\* Vocabulary of the properties
\* ------------------------------------------------------------------------
ActiveSlots(ps) == {i \in Slots : ps[i].state = PLAYER_ACTIVE}

\* slots passed walking upward with wrap-around from the slot after `from` to a
Dist(from, a) == (a + MAX_PLAYERS - from - 1) % MAX_PLAYERS

\* the Active slot nearest after `from` in ascending wrap-around order, -1 if none
NextActiveAfter(ps, from) ==
    IF ActiveSlots(ps) = {} THEN -1
    ELSE CHOOSE a \in ActiveSlots(ps) :
            \A b \in ActiveSlots(ps) : Dist(from, a) <= Dist(from, b)

TurnIsActive == current_turn \in Slots /\ players[current_turn].state = PLAYER_ACTIVE

\* this step is handler h answering a Move (Place or Roll)
MoveStep(h) == hpc[h] = "cs" /\ out'.h = h /\ out'.req \in {"PLACE", "ROLL"}

\* this step accepts a Move: the response is a result, or the game over it caused
AcceptStep(h) == MoveStep(h) /\ out'.type \in {"PLACE_RESULT", "ROLL_RESULT", "GAME_OVER"}

\* processes inside a critical section of the game lock
InCS ==
    Cardinality({h \in Handlers : hpc[h] \in {"cs", "adv_cs", "btn_cs"}})
    + (IF spc = "cs" THEN 1 ELSE 0)
    + (IF mpc \in {"scan_cs", "reset_cs"} THEN 1 ELSE 0)

\* ------------------------------------------------------------------------
\* Properties
\* ------------------------------------------------------------------------
\* C1: a Move of slot s processed while the game is not in progress or while
\* current_turn is not s is answered with Error or Wait, and the step leaves
\* every shared field as it was.
C1_RejectedMoveChangesNothing ==
    [][\A h \in Handlers :
         (MoveStep(h) /\ (game_state # GAME_IN_PROGRESS \/ current_turn # hslot[h]))
         => (out'.type \in {"ERROR", "WAIT"} /\ UNCHANGED shared)]_vars

\* a Move was just refused because it is another slot's turn
C1_Witness ==
    /\ out.req \in {"PLACE", "ROLL"}
    /\ out.type = "WAIT"
    /\ game_state = GAME_IN_PROGRESS
    /\ out.h \in Handlers
    /\ current_turn # hslot[out.h]

C3_CurrentTurnIsActive == current_turn = -1 \/ TurnIsActive

\* C4: every slot's score is what replaying the accepted moves one at a time
\* gives, and since the last turn change at most one slot had a move accepted.
C4_ScoresAppliedOnce ==
    /\ \A i \in Slots : players[i].score = seq_score[i]
    /\ Cardinality(movers) <= 1

\* moves of two different slots were accepted, in two turns
C4_Witness ==
    /\ nmoves = MaxMoves
    /\ Cardinality({i \in Slots : players[i].score # 0}) >= 2

\* C5: current_turn leaves none only in a step after which at least MIN_PLAYERS
\* slots are Active, one of them the new current_turn.
C5_StartNeedsMinPlayers ==
    [][(current_turn = -1 /\ current_turn' # -1)
       => (count_active_players(players') >= MIN_PLAYERS /\ TurnIsActive')]_vars

\* C6: each result of get_next_active_player is the nearest Active slot after
\* the index it started from (wrapping), or -1 when no slot is Active; the
\* first results of a walk are the Active slots, each once, then the walk repeats.
C6_RoundRobin ==
    LET A == ActiveSlots(players)
        n == Cardinality(A)
    IN
    /\ \A i \in 2 .. Len(visited) :
          /\ visited[i] = NextActiveAfter(players, visited[i - 1])
          /\ visited[i] = -1 <=> A = {}
          /\ visited[i] # -1 => players[visited[i]].state = PLAYER_ACTIVE
    /\ (n > 0 /\ Len(visited) >= n + 1) => {visited[i] : i \in 2 .. (n + 1)} = A
    /\ (n > 0 /\ Len(visited) >= n + 2) => visited[n + 2] = visited[2]

\* a full walk from a start over slots in all four connection states
C6_Witness ==
    /\ Len(visited) = MaxAdvances + 1
    /\ Cardinality(ActiveSlots(players)) = 2
    /\ {players[i].state : i \in Slots} = PlayerStates
    /\ visited[1] \in Slots
    /\ players[visited[1]].state # PLAYER_ACTIVE

\* C7: the advance_turn that follows an accepted Move of slot s gives the turn
\* to the nearest Active slot after s, and no Move is accepted while a handler
\* is between its accepted Move and that advance_turn.
C7_TurnPassesToNext ==
    [][/\ \A h \in Handlers :
            (hpc[h] = "adv_cs" /\ hpc'[h] # "adv_cs" /\ ActiveSlots(players) # {})
            => current_turn' = NextActiveAfter(players, hslot[h])
       /\ (\E g \in Handlers : hpc[g] \in {"adv", "adv_cs"})
            => ~ (\E h \in Handlers : AcceptStep(h))]_vars

\* C8: once the slot at current_turn is not Active while the game is in
\* progress, eventually current_turn is an Active slot or the game is
\* Finished; the scheduler step that finds the slot gone gives the turn to the
\* nearest Active slot after it or, with no Active slot, finishes the game.
C8_SchedulerRoutesAround ==
    /\ (game_state = GAME_IN_PROGRESS /\ current_turn \in Slots /\ ~TurnIsActive)
          ~> (TurnIsActive \/ game_state = GAME_FINISHED)
    /\ [][(spc = "cs" /\ spc' = "run" /\ game_state = GAME_IN_PROGRESS
           /\ current_turn \in Slots /\ ~TurnIsActive)
          => IF ActiveSlots(players) = {}
             THEN game_state' = GAME_FINISHED
             ELSE current_turn' = NextActiveAfter(players, current_turn)
                  /\ TurnIsActive']_vars

\* the scheduler has just given the turn of a slot that left to the next one
C8_Witness ==
    /\ e2e = 7
    /\ TurnIsActive
    /\ players[1].state = PLAYER_DISCONNECTED

\* C9: slots 0, 1, 2 join in this order: the game waits until the third Join
\* and is then in progress with current_turn 0; after slot 0's move and its
\* advance_turn the turn is 1; it still is after slot 1's pipe closed; the
\* scheduler's next iteration makes it 2; and while the turn names slot 1 no
\* Move is accepted from slot 0 or 2.
C9_Scenario ==
    /\ [](/\ e2e \in {1, 2} => (game_state = GAME_WAITING_FOR_PLAYERS /\ current_turn = -1)
          /\ e2e \in {3, 4} => (game_state = GAME_IN_PROGRESS /\ current_turn = 0)
          /\ e2e \in {5, 6} => (game_state = GAME_IN_PROGRESS /\ current_turn = 1)
          /\ e2e = 7 => (game_state = GAME_IN_PROGRESS /\ current_turn = 2
                         /\ players[2].state = PLAYER_ACTIVE))
    /\ [][(e2e \in {5, 6}) => ~ (\E h \in Handlers : AcceptStep(h) /\ hslot[h] # 1)]_vars

\* the whole scenario has run in the race server
C9_Witness == e2e = 7 /\ server = "race" /\ current_turn = 2

\* C10: a Place of the current player on an empty, non-fixed cell in range with
\* the cell's solution fills the cell, records the mover, takes 1 off
\* cells_remaining, adds POINTS_CORRECT to the mover's score and 1 to its
\* correct_placements, and changes no other cell and no other player.
C10_CorrectPlacement ==
    [][\A h \in Handlers :
         LET c == <<out'.row, out'.col>>
             s == hslot[h]
         IN
         (AcceptStep(h) /\ out'.req = "PLACE" /\ out'.value = grid[c].solution)
         => /\ current_turn = s /\ game_state = GAME_IN_PROGRESS
            /\ c \in Cells /\ grid[c].is_fixed = 0 /\ grid[c].value = EMPTY_CELL
            /\ grid'[c].value = out'.value
            /\ grid'[c].placed_by = s
            /\ grid'[c].solution = grid[c].solution /\ grid'[c].is_fixed = 0
            /\ cells_remaining' = cells_remaining - 1
            /\ players'[s].score = players[s].score + 10
            /\ players'[s].correct_placements = players[s].correct_placements + 1
            /\ players'[s].wrong_placements = players[s].wrong_placements
            /\ players'[s].state = players[s].state
            /\ \A d \in Cells \ {c} : grid'[d] = grid[d]
            /\ \A i \in Slots \ {s} : players'[i] = players[i]]_vars

\* a correct placement that did not end the game has just been answered
C10_Witness ==
    /\ out.type = "PLACE_RESULT"
    /\ out.success = 1
    /\ cells_remaining = CellsToRemove - 1
    /\ \E c \in Cells : grid[c].placed_by = hslot[out.h] /\ grid[c].value = out.value

\* C11: a Place of the current player on an empty, non-fixed cell in range
\* with a value in 1 .. 9 that is not the cell's solution leaves the grid and
\* cells_remaining as they were, takes 5 off the mover's score and adds 1 to
\* its wrong_placements; nothing else of any player changes.
C11_WrongPlacement ==
    [][\A h \in Handlers :
         LET c == <<out'.row, out'.col>>
             s == hslot[h]
         IN
         (AcceptStep(h) /\ out'.req = "PLACE" /\ out'.value # grid[c].solution)
         => /\ current_turn = s /\ game_state = GAME_IN_PROGRESS
            /\ c \in Cells /\ grid[c].is_fixed = 0 /\ grid[c].value = EMPTY_CELL
            /\ grid' = grid
            /\ grid'[c].value = EMPTY_CELL
            /\ cells_remaining' = cells_remaining
            /\ players'[s].score = players[s].score - 5
            /\ players'[s].wrong_placements = players[s].wrong_placements + 1
            /\ players'[s].correct_placements = players[s].correct_placements
            /\ players'[s].state = players[s].state
            /\ \A i \in Slots \ {s} : players'[i] = players[i]]_vars

\* a wrong placement has just been answered: the target is still empty
C11_Witness ==
    /\ out.type = "PLACE_RESULT"
    /\ out.success = 0
    /\ grid[<<out.row, out.col>>].value = EMPTY_CELL
    /\ players[hslot[out.h]].wrong_placements = 1
    /\ cells_remaining = CellsToRemove

\* C12: a Place of the current player while the game is in progress is either
\* accepted, and then its target is in range, its value in 1 .. 9 and the cell
\* neither fixed nor filled, or answered with Error, and then no shared field
\* changes and the handler does not go on to advance_turn.
C12_InvalidPlacementRejected ==
    [][\A h \in Handlers :
         LET c == <<out'.row, out'.col>> IN
         (MoveStep(h) /\ out'.req = "PLACE" /\ game_state = GAME_IN_PROGRESS
          /\ current_turn = hslot[h])
         => \/ /\ AcceptStep(h)
               /\ c \in Cells
               /\ out'.value \in 1 .. 9
               /\ grid[c].is_fixed = 0
               /\ grid[c].value = EMPTY_CELL
            \/ /\ out'.type = "ERROR"
               /\ UNCHANGED shared
               /\ hpc'[h] = "read"]_vars

\* the current player's Place has just been refused by the validation
C12_Witness ==
    /\ out.req = "PLACE"
    /\ out.type = "ERROR"
    /\ game_state = GAME_IN_PROGRESS
    /\ out.h \in Handlers
    /\ current_turn = hslot[out.h]
    /\ nmoves = 0

\* C13: an accepted Roll of dice (a, b) sets the mover's score to 0 when
\* (a, b) = (1, 1) and to the prior score + a + b otherwise, and changes no
\* other field of any player.
C13_RollScore ==
    [][\A h \in Handlers :
         LET s == hslot[h]
             a == out'.die1
             b == out'.die2
         IN
         (AcceptStep(h) /\ out'.req = "ROLL")
         => /\ a \in 1 .. 6 /\ b \in 1 .. 6
            /\ (a = 1 /\ b = 1) => players'[s].score = 0
            /\ ~(a = 1 /\ b = 1) => players'[s].score = players[s].score + a + b
            /\ players'[s].state = players[s].state
            /\ \A i \in Slots \ {s} : players'[i] = players[i]]_vars

\* snake eyes have just taken a score of 88 or more down to 0
C13_Witness ==
    /\ out.type = "ROLL_RESULT"
    /\ out.die1 = 1 /\ out.die2 = 1
    /\ players[hslot[out.h]].score = 0
    /\ seq_score[hslot[out.h]] = 0
    /\ nmoves = 1
    /\ \A i \in {0, 1} \ {hslot[out.h]} : players[i].score >= 88

\* C14: an accepted Roll that brings the mover's score to 100 or more sets, in
\* the same step, game_state to Finished and winner_id to the mover, leaves
\* current_turn alone and is not followed by advance_turn; and while the game
\* is Finished no Roll is accepted.
C14_WinFinishes ==
    [][/\ \A h \in Handlers :
            (AcceptStep(h) /\ out'.req = "ROLL" /\ players'[hslot[h]].score >= 100)
            => /\ game_state' = GAME_FINISHED
               /\ winner_id' = hslot[h]
               /\ current_turn' = current_turn
               /\ hpc'[h] = "read"
       /\ game_state = GAME_FINISHED => ~ (\E h \in Handlers : AcceptStep(h))
       /\ (\E h \in Handlers : AcceptStep(h) /\ players'[hslot[h]].score < 100)
            => game_state' = GAME_IN_PROGRESS]_vars

\* a Roll has just reached exactly 100 and ended the game
C14_Witness ==
    /\ out.type = "GAME_OVER"
    /\ game_state = GAME_FINISHED
    /\ winner_id = hslot[out.h]
    /\ players[winner_id].score = 100
    /\ current_turn = winner_id

\* C15: when the last cell is filled the game is Finished and the winner is the
\* Active slot with the highest score, the lowest index among equals, whatever
\* the scores; the winner is never none while a player is Active
C15_WinnerIsBestActive ==
    (game_state = GAME_FINISHED /\ cells_remaining <= 0 /\ ActiveSlots(players) # {})
        => /\ winner_id \in ActiveSlots(players)
           /\ \A i \in ActiveSlots(players) :
                 \/ players[i].score < players[winner_id].score
                 \/ players[i].score = players[winner_id].score /\ winner_id <= i


\* C16: a game that finished because the last cell was filled has its result in
\* the ledger: once the scheduler has looked at the finished game, the winner's
\* entry counts the win and every Active player's entry holds its placements
C16_LedgerUpdatedOnCompletion ==
    [][(/\ server = "sudoku"
        /\ spc = "cs" /\ spc' = "run"
        /\ game_state' = GAME_FINISHED
        /\ cells_remaining' <= 0
        /\ winner_id' >= 0)
       => /\ ledger'[winner_id'].wins >= 1
          /\ \A i \in ActiveSlots(players') :
                /\ ledger'[i].total_correct >= players'[i].correct_placements
                /\ ledger'[i].total_wrong >= players'[i].wrong_placements]_vars

\* C17: once the puzzle is generated, a fixed cell never changes, and a cell
\* that is not fixed changes only from empty to filled; a filled cell keeps its
\* value and its placed_by
C17_CellsWriteOnce ==
    [][(server = "sudoku" /\ game_state # GAME_WAITING_FOR_PLAYERS)
       => \A c \in Cells :
             /\ grid[c].is_fixed # 0 => grid'[c] = grid[c]
             /\ grid[c].value # EMPTY_CELL => grid'[c] = grid[c]
             /\ grid'[c] # grid[c]
                   => /\ grid[c].is_fixed = 0
                      /\ grid[c].value = EMPTY_CELL
                      /\ grid'[c].value # EMPTY_CELL
                      /\ grid'[c] = [grid[c] EXCEPT !.value = grid'[c].value,
                                                    !.placed_by = grid'[c].placed_by]]_vars

\* a cell filled by one slot is still that slot's after another slot's
\* placement was accepted, next to a fixed cell holding its solution
C17_Witness ==
    /\ server = "sudoku"
    /\ nmoves = 2
    /\ out.req = "PLACE" /\ out.type \in {"PLACE_RESULT", "GAME_OVER"}
    /\ \E c \in Cells :
          /\ grid[c].is_fixed = 0
          /\ grid[c].value = grid[c].solution
          /\ grid[c].placed_by >= 0
          /\ grid[c].placed_by # hslot[out.h]
    /\ \E c \in Cells : grid[c].is_fixed = 1 /\ grid[c].value = grid[c].solution

\* C18: turn_signal never decreases, and a step that changes current_turn
\* (game start, advance_turn, the scheduler's reassignment) raises it in the
\* same step
C18_TurnSignalMonotonic ==
    [][server = "sudoku"
       => /\ turn_signal' >= turn_signal
          /\ current_turn' # current_turn => turn_signal' > turn_signal]_vars

\* the turn was given at the start, passed on by advance_turn after a move and
\* passed on again by the scheduler after the new holder left: three changes
C18_Witness ==
    /\ server = "sudoku"
    /\ game_state = GAME_IN_PROGRESS
    /\ nmoves >= 1
    /\ turn_signal = 3
    /\ current_turn = 2
    /\ players[1].state = PLAYER_DISCONNECTED
    /\ spc = "run" /\ game_lock = 0

\* C19: a Status query changes no shared field, and when the same handler is
\* answered twice with no client request carried out in between (no Move, and
\* no Join, Quit or disconnect either), the second snapshot equals the first
C19_StatusIdempotent ==
    [][status_seen'.n # status_seen.n
       => /\ UNCHANGED shared
          /\ status_seen.h = status_seen'.h => status_seen'.snap = status_seen.snap]_vars

\* C20: in both servers a handler that ends, on a closed pipe as on Quit,
\* leaves its slot Disconnected and num_players one lower, and changes nothing
\* else in the shared state
C20_DisconnectLikeQuit ==
    [][\A h \in Handlers :
          (hpc[h] = "cs" /\ hpc'[h] = "exit")
             => /\ players' = [players EXCEPT ![hslot[h]].state = PLAYER_DISCONNECTED]
                /\ num_players' = num_players - 1
                /\ UNCHANGED <<game_state, current_turn, winner_id, grid,
                               cells_remaining, turn_signal>>]_vars

\* C21: a YourTurn message goes only to the slot that is current_turn at the
\* moment it is written, and only while the game is in progress
C21_YourTurnToCurrent ==
    [][out'.type = "YOUR_TURN"
       => /\ out'.to = current_turn
          /\ game_state = GAME_IN_PROGRESS
          /\ UNCHANGED shared]_vars

\* a handler notifies slot 2 after its own move was followed by the
\* scheduler's reassignment away from slot 1, which left
C21_Witness ==
    /\ out.type = "YOUR_TURN"
    /\ out.to = 2
    /\ nmoves >= 1
    /\ players[1].state = PLAYER_DISCONNECTED
    /\ turn_signal >= 3

\* C28: no message is written to a pipe by a process that still holds the game
\* lock: every write comes after the unlock
C28_NoWriteUnderLock ==
    [][out'.type # "NONE" => out'.locked = FALSE]_vars

\* positions of handle_client from which the next step reads or writes shared
\* game fields, and those of them that lie between spin_lock and spin_unlock
AccessPositions == {"cs", "adv_cs", "btn_cs", "chk"}
LockedPositions == {"cs", "adv_cs", "btn_cs"}

\* C27: a handler that reads or writes a shared game field holds the game lock
\* while it does
C27_SharedAccessUnderLock ==
    [][\A h \in Handlers :
          (server = "sudoku" /\ hpc[h] \in AccessPositions /\ hpc'[h] # hpc[h])
             => (hpc[h] \in LockedPositions /\ game_lock = 1)]_vars

\* C30: no two live handler processes serve the same slot
C30_OneHandlerPerSlot ==
    \A h1, h2 \in Handlers :
       (h1 # h2 /\ hslot[h1] >= 0 /\ hslot[h2] >= 0) => hslot[h1] # hslot[h2]

\* C22: the game lock is never left held by a process that no longer exists:
\* whenever it is held, a live handler or the scheduler is inside a critical
\* section and will release it
C22_LockHasLiveHolder ==
    game_lock = 1
       => \/ spc = "cs"
          \/ mpc \in {"scan_cs", "reset_cs"}
          \/ \E h \in Handlers : hpc[h] \in LockedPositions

\* the shared state as reset_game_state leaves it
FreshGame ==
    /\ game_state = GAME_WAITING_FOR_PLAYERS
    /\ current_turn = -1
    /\ winner_id = -1
    /\ num_players = 0
    /\ \A i \in Slots : players[i].state = PLAYER_DISCONNECTED /\ players[i].score = 0

\* C26: in the race server a finished game is followed, sooner or later, by
\* the reset of the shared state for a new game
C26_FinishedLeadsToReset ==
    (server = "race" /\ game_state = GAME_FINISHED) ~> FreshGame

\* the entries waiting in the circular buffer, oldest first
QueueContents(q) ==
    [k \in 1 .. q.count |-> q.entries[(q.head + k - 1) % LogQueueCap]]

\* the locks thread t holds, from its position between the lock and unlock
\* calls; sigint_handler holds its lock on the thread it interrupted
HeldLocks(t) ==
    (IF tpc[t] \in {"g_cs", "g_log", "g_log_cs", "g_out", "h_cs", "h_log_cs", "h_out"}
     THEN {"game"} ELSE {})
    \cup (IF tpc[t] \in {"start_cs", "bye_cs", "flag_cs", "init_cs", "g_log_cs",
                         "h_log_cs", "cs"}
             \/ (sig.t = t /\ sig.pc = "shut_cs")
          THEN {"log"} ELSE {})
    \cup (IF tpc[t] = "save_cs" THEN {"scores"} ELSE {})

\* C23: after a shutdown signal the scheduler and the logger exit and main
\* gets to its cleanup
C23_ShutdownTerminates ==
    (sig.pc # "idle")
        ~> (tpc["sched"] = "done" /\ tpc["logger"] = "done" /\ tpc["main"] = "cleanup")

\* C24: the log file holds the accepted entries in the order of their
\* enqueueing, each once, and the queue holds the rest in the same order
C24_LogIsFifo ==
    log_file \o QueueContents(log_queue) = accepted

\* three entries of more than one writer are in the file and a later one
\* waits in the buffer, while the logger and the enqueuers go on
C24_Witness ==
    /\ Len(log_file) >= 3
    /\ log_queue.count >= 1
    /\ Cardinality({log_file[i][1] : i \in 1 .. Len(log_file)}) >= 2
    /\ sig.pc = "idle"

\* C25: once the logger has exited, every accepted entry is in the file
C25_NothingLeftUnwritten ==
    tpc["logger"] = "done" => log_file = accepted

\* C29: no thread or process holds two of the game lock, the log-queue lock
\* and the ledger lock at once
C29_NoTwoLocks ==
    \A t \in Threads : Cardinality(HeldLocks(t)) <= 1

\* C32: the handler of slot i writes the Player fields of slot i only, and a
\* slot's fields are written by nobody but its own handler and the scheduler
C32_HandlerWritesOwnSlot ==
    [][\A j \in Slots :
          players'[j] # players[j]
             => \/ spc = "cs" /\ spc' = "run"
                \/ \E h \in Handlers :
                      hpc[h] = "cs" /\ hpc'[h] # "cs" /\ hslot[h] = j]_vars

\* slots that count as players: Waiting or Active
Joined(ps) == {i \in Slots : ps[i].state \in {PLAYER_WAITING, PLAYER_ACTIVE}}

\* C35: num_players is the number of Waiting or Active slots and is never
\* negative
C35_NumPlayersCountsSlots ==
    num_players = Cardinality(Joined(players)) /\ num_players >= 0

\* the cells of g without a value
EmptyCells(g) == {c \in Cells : g[c].value = EMPTY_CELL}

\* C39: in the placement server, once the game has started, cells_remaining is
\* the number of empty cells, every filled cell holds its solution value, and
\* every score is 10 per correct placement minus 5 per wrong one
C39_GridAndScoresConsistent ==
    (server = "sudoku" /\ game_state \in {GAME_IN_PROGRESS, GAME_FINISHED})
       => /\ cells_remaining = Cardinality(EmptyCells(grid))
          /\ \A c \in Cells :
                grid[c].value # EMPTY_CELL => grid[c].value = grid[c].solution
          /\ \A i \in Slots :
                players[i].score = 10 * players[i].correct_placements
                                   - 5 * players[i].wrong_placements

\* a wrong and a correct placement have been made, a cell is still empty, and
\* the players' counters differ
C39_Witness ==
    /\ server = "sudoku"
    /\ game_state = GAME_IN_PROGRESS
    /\ nmoves = 2
    /\ cells_remaining = CellsToRemove - 1
    /\ \E i \in Slots : players[i].wrong_placements = 1
    /\ \E i \in Slots : players[i].correct_placements = 1

\* C38: in the placement server a slot that is Waiting after the game has
\* left the waiting phase (its Join came late) is not promoted, does not get
\* the turn, has every Place rejected, and its Join leaves the phase and
\* current_turn alone
C38_LateJoinerStaysOut ==
    [][(server = "sudoku" /\ game_state # GAME_WAITING_FOR_PLAYERS)
          => /\ game_state' # GAME_WAITING_FOR_PLAYERS
             /\ \A i \in Slots :
                   /\ (players[i].state = PLAYER_WAITING
                          => players'[i].state # PLAYER_ACTIVE)
                   /\ (players'[i].state = PLAYER_WAITING /\ current_turn' = i
                          => current_turn = i)
             /\ \A h \in Handlers :
                   /\ (MoveStep(h) /\ players[hslot[h]].state = PLAYER_WAITING
                          => out'.type \in {"ERROR", "WAIT"})
                   /\ (hpc[h] = "cs" /\ players[hslot[h]].state # PLAYER_WAITING
                          /\ players'[hslot[h]].state = PLAYER_WAITING
                          => UNCHANGED <<game_state, current_turn>>)]_vars

\* positions of a thread inside enqueue_log, the log-queue lock held
EnqueuePositions == {"start_cs", "bye_cs", "init_cs", "g_log_cs", "h_log_cs"}

\* calls of enqueue_log that have returned
EnqueueCalls ==
    (IF tpc["main"] \notin {"start", "start_cs"} THEN 1 ELSE 0)
    + (IF tpc["main"] \notin {"start", "start_cs", "serve", "bye", "bye_cs"} THEN 1 ELSE 0)
    + (IF tpc["sched"] \notin {"init", "init_cs"} THEN 1 ELSE 0)
    + nlogs
    - (IF tpc["sched"] \in {"g_log", "g_log_cs"} THEN 1 ELSE 0)
    - (IF tpc["handler"] \in {"h_cs", "h_log_cs"} THEN 1 ELSE 0)

\* C34: enqueue_log on a full queue returns, leaving head, tail, count and
\* every stored entry as they were; no call overwrites an entry that waits
C34_FullQueueDropsEntry ==
    [][\A t \in Threads :
          (tpc[t] \in EnqueuePositions /\ tpc'[t] # tpc[t])
             => /\ log_queue.count >= LogQueueCap
                   => /\ log_queue' = [log_queue EXCEPT !.lock = 0]
                      /\ UNCHANGED <<accepted, log_file>>
                /\ \A k \in 1 .. log_queue.count :
                      QueueContents(log_queue')[k] = QueueContents(log_queue)[k]
                /\ log_queue'.lock = 0]_vars

\* a call has returned without its entry being stored, and the queue is full
C34_Witness ==
    /\ log_queue.count = LogQueueCap
    /\ EnqueueCalls > Len(accepted)
    /\ log_queue.lock = 0

\* executions of save_scores between fopen and fclose
ScoresFileOpen ==
    (IF tpc["main"] \in {"save_open", "save_cs"} THEN {"main"} ELSE {})
    \cup (IF sig.pc = "save_open" THEN {"sigint_handler"} ELSE {})

\* C33: at most one execution of save_scores has the ledger file open
C33_OneLedgerWriter ==
    Cardinality(ScoresFileOpen) <= 1

\* thread t waits for a lock that is taken
Blocked(t) ==
    \/ t = "main" /\ tpc[t] \in {"start", "bye", "flag"} /\ log_queue.lock = 1
    \/ t = "main" /\ tpc[t] = "save_open" /\ scores_lock = 1
    \/ t = "sched" /\ tpc[t] \in {"init", "g_log"} /\ log_queue.lock = 1
    \/ t = "sched" /\ tpc[t] = "run" /\ server_running = 1 /\ game_lock = 1
    \/ t = "handler" /\ tpc[t] = "h_cs" /\ log_queue.lock = 1
    \/ t = "logger" /\ tpc[t] = "idle" /\ log_queue.lock = 1

\* positions from which a thread asks for the game lock
GameLockRequests == {"run", "h_idle"}

C31_SlotNotReusedMidGame ==
    [][\A h \in Handlers :
          (game_state = GAME_IN_PROGRESS /\ hpc[h] = "unborn" /\ hpc'[h] # "unborn")
             => hslot'[h] \notin (served.slots \cup LiveSlots(hslot))]_vars

\* C37: in the placement server a change of current_turn during the game is
\* followed by a YourTurn to the current slot, unless the game ends first
C37_TurnChangeLeadsToYourTurn ==
    (pending = "yes") ~> (pending = "no" \/ game_state # GAME_IN_PROGRESS)

\* C36: the snapshot a grid update carries equals the shared state of one
\* instant between the start and the end of its copy
C36_SnapshotOfOneInstant ==
    [][\A h \in Handlers :
          (hpc[h] = "bgu2" /\ hpc'[h] # "bgu2")
             => GridUpdate(h) \in (update.trail[h] \cup {SnapshotNow})]_vars

====
